---- MODULE Spec2Model ----
(***************************************************************************)
(* Order adjudication of dip_tom (src/src/dip_tom/env/adjudicator.py) over *)
(* the GameState of src/src/dip_tom/env/state.py and the order variants of *)
(* src/src/dip_tom/env/orders.py.                                          *)
(*                                                                         *)
(* Python objects are kept in typed heaps so that aliasing is visible:     *)
(*   objs    GameState objects  [units, center_owner: address, turn]       *)
(*   tops    top-level units dicts      Power  -> address of an inner dict *)
(*   inners  per-power units dicts      UnitId -> Node                     *)
(*   centers center_owner dicts         Node   -> Power or None            *)
(* An address is an index into the heap's sequence.  A dict is a function  *)
(* on its key set; the order in which a dict or a set is iterated is not   *)
(* part of its value and is chosen anew by every call (IterOrders).        *)
(***************************************************************************)
EXTENDS Integers, Sequences, FiniteSets, TLC

\* ------------------------------------------------------------------ bounds
\* The most Support orders one orders mapping holds.
MaxSupports == 1

\* ------------------------------------------------------------- vocabulary
None == "None"
NoKey == <<>>
\* The nodes of the board, and the units that may stand on it: two powers,
\* each with a unit u and a unit s.
NodeNames == <<"A", "B", "C", "D">>
AllKeys == << <<"p1", "u1">>, <<"p2", "u2">>, <<"p1", "s1">>, <<"p2", "s2">> >>

Nodes == {NodeNames[i] : i \in 1..Len(NodeNames)}
BoardSizes == 1..Len(AllKeys)

\* orders.py: the three order variants.  The power and unit_id fields of an
\* order are never read by the adjudicator (a unit's order is found by its key
\* in the orders mapping), so an order is represented by its other fields.
Hold == [kind |-> "Hold", supported |-> NoKey, from_node |-> None, to_node |-> None]
Move(to) == [kind |-> "Move", supported |-> NoKey, from_node |-> None, to_node |-> to]
Support(sk, from, to) ==
    [kind |-> "Support", supported |-> sk, from_node |-> from, to_node |-> to]

VARIABLES
    objs, tops, inners, centers,  \* the heaps
    state,                        \* address of the input GameState
    orders,                       \* the orders mapping passed by the caller
    pc,                           \* position of the caller
    before,                       \* value of the call's input when the call began
    next_state,                   \* address returned by the first call, or 0
    again_orders,                 \* the orders mapping of the second call
    again,                        \* address returned by the second call, or 0
    successful,                   \* _resolve_move_success: its successful_moves set
    passes,                       \* _resolve_move_success: passes completed
    map_def,                      \* the MapDef passed by the caller
    power,                        \* the power passed to legal_orders
    error,                        \* what validate_map raised, or None
    orders_by_unit,               \* what legal_orders returned
    participants,                 \* NegotiationProtocol.participants: its keys, in order
    accepted_deals_by_power,      \* NegotiationProtocol.accepted_deals_by_power
    powers,                       \* the powers argument of the latest run_turn
    replies,                      \* what the participants answered in that run_turn
    accepted,                     \* what that run_turn returned
    calls,                        \* the calls that run_turn made on the participants
    deal,                         \* the deal whose methods are called
    allowed,                      \* what deal.allowed_orders returned
    submitted,                    \* the orders submitted by the power
    found,                        \* what deal.violations returned
    active_deals,                 \* BaselineNegotiatorAgent._active_deals
    target_centers,               \* Game.target_centers
    max_turns,                    \* Game.max_turns
    eliminated,                   \* Game.eliminated
    initial_turn,                 \* the turn of the state the Game was made with
    rounds,                       \* the calls of step that run has made
    result                        \* the GameResult that run returned, or NoResult

\* The locals of a call that is followed pass by pass, and the arguments and
\* results of the map and order-generation calls.
loopVars == <<successful, passes>>
mapVars == <<map_def, power, error, orders_by_unit>>
\* The negotiation protocol object and its latest turn, and the arguments and
\* results of the calls on a deal.
talkVars == <<participants, accepted_deals_by_power, powers, replies, accepted, calls>>
dealVars == <<deal, allowed, submitted, found, active_deals>>
\* The fields of a Game next to its state and map, and the course of its run.
gameVars == <<target_centers, max_turns, eliminated, initial_turn, rounds, result>>

vars == <<objs, tops, inners, centers, state, orders, pc, before, next_state,
          again_orders, again, successful, passes, map_def, power, error,
          orders_by_unit, participants, accepted_deals_by_power, powers, replies,
          accepted, calls, deal, allowed, submitted, found, active_deals, target_centers,
          max_turns, eliminated, initial_turn, rounds, result>>

\* ------------------------------------------------------------ state.py
\* The (power, unit_id) -> node reading of a GameState: state.units[p][u].
UnitsOf(o, t, i, s) ==
    LET top == t[o[s].units]
        keys == UNION {{<<p, u>> : u \in DOMAIN i[top[p]]} : p \in DOMAIN top}
    IN [k \in keys |-> i[top[k[1]]][k[2]]]

\* Value of a GameState as dataclass equality sees it.
ValueOf(o, t, i, c, s) ==
    [units |-> [p \in DOMAIN t[o[s].units] |-> i[t[o[s].units][p]]],
     center_owner |-> c[o[s].center_owner],
     turn |-> o[s].turn]

\* ------------------------------------------------------- iteration orders
\* all_units() lists the units power by power, in the insertion order of the
\* dicts.  Two equal states may differ in that order, so every call draws one.
RECURSIVE Arrangements(_)
Arrangements(S) ==
    IF S = {} THEN {<<>>}
    ELSE UNION {{<<x>> \o t : t \in Arrangements(S \ {x})} : x \in S}

\* The sequences that list the units of the powers in P, one power after another.
RECURSIVE PowerByPower(_, _)
PowerByPower(units, P) ==
    IF P = {} THEN {<<>>}
    ELSE UNION {{a \o t : a \in Arrangements({k \in DOMAIN units : k[1] = p}),
                          t \in PowerByPower(units, P \ {p})} : p \in P}

IterOrders(units) == PowerByPower(units, {k[1] : k \in DOMAIN units})

\* ---------------------------------------------------------- adjudicator.py
\* _unit_at_node: the first unit, in iteration order, standing on the node.
_unit_at_node(units, ord, node) ==
    LET here == SelectSeq(ord, LAMBDA k : units[k] = node)
    IN IF here = <<>> THEN NoKey ELSE here[1]

\* Mutant of _normalize_orders: orders.get(key) without the Hold default leaves
\* a unit that was given no order with no order at all.
_normalize_orders_no_default(units, ords) ==
    [k \in DOMAIN units |->
        IF k \in DOMAIN ords THEN ords[k]
        ELSE [kind |-> "None", supported |-> NoKey, from_node |-> None, to_node |-> None]]

\* _normalize_orders: one order per unit of the state, Hold when none was given;
\* entries of the mapping for units that are not in the state are ignored.
_normalize_orders(units, ords) ==
    [k \in DOMAIN units |-> IF k \in DOMAIN ords THEN ords[k] ELSE Hold]

\* adjudicate_orders, lines 26-30.
move_orders(norm) == {k \in DOMAIN norm : norm[k].kind = "Move"}

\* state.units.get(power, {}).get(unit_id): None for an unknown unit.
LocationOf(units, k) == IF k \in DOMAIN units THEN units[k] ELSE None

\* Mutant of CountsForMove: the from_node of the Support order is not compared
\* with the supported unit's node.
CountsForMoveAnyFrom(units, norm, s, k) ==
    /\ norm[s].kind = "Support"
    /\ norm[s].to_node # None
    /\ norm[s].supported = k
    /\ k \in {x \in DOMAIN norm : norm[x].kind = "Move"}
    /\ norm[k].to_node = norm[s].to_node

\* Mutant of CountsForMove: a Support order is cut, and counts for nothing,
\* when another unit's Move order targets the node the supporter stands on.
CountsForMoveUnlessCut(units, norm, s, k) ==
    /\ norm[s].kind = "Support"
    /\ norm[s].to_node # None
    /\ norm[s].supported = k
    /\ k \in {x \in DOMAIN norm : norm[x].kind = "Move"}
    /\ LocationOf(units, k) = norm[s].from_node
    /\ norm[k].to_node = norm[s].to_node
    /\ ~\E a \in DOMAIN norm :
          a # s /\ norm[a].kind = "Move" /\ norm[a].to_node = units[s]

\* Mutant of CountsForMove: the to_node of the Support order is not compared
\* with the destination of the supported move.
CountsForMoveAnyTarget(units, norm, s, k) ==
    /\ norm[s].kind = "Support"
    /\ norm[s].to_node # None
    /\ norm[s].supported = k
    /\ k \in {x \in DOMAIN norm : norm[x].kind = "Move"}
    /\ LocationOf(units, k) = norm[s].from_node

\* _compute_move_strengths, lines 64-80: the test one Support order passes to
\* count for the move of unit k.
CountsForMove(units, norm, s, k) ==
    /\ norm[s].kind = "Support"
    /\ norm[s].to_node # None
    /\ norm[s].supported = k
    /\ k \in move_orders(norm)
    /\ LocationOf(units, k) = norm[s].from_node
    /\ norm[k].to_node = norm[s].to_node

_compute_move_strengths(units, norm) ==
    [k \in move_orders(norm) |->
        1 + Cardinality({s \in DOMAIN norm : CountsForMove(units, norm, s, k)})]

\* _compute_hold_strengths, lines 91-105: the test one Support order passes to
\* count for the hold of unit k.
CountsForHold(units, norm, s, k) ==
    /\ norm[s].kind = "Support"
    /\ norm[s].to_node = None
    /\ norm[s].supported = k
    /\ k \in DOMAIN norm
    /\ norm[k].kind = "Hold"
    /\ LocationOf(units, k) = norm[s].from_node

\* The returned dict has an entry only for a unit with at least one counted
\* support; readers use .get(key, 1).
_compute_hold_strengths(units, norm) ==
    LET n(k) == Cardinality({s \in DOMAIN norm : CountsForHold(units, norm, s, k)})
    IN [k \in {x \in DOMAIN norm : n(x) > 0} |-> 1 + n(k)]

MaxOf(S) == CHOOSE m \in S : \A x \in S : x <= m

\* Mutant of CandidatesFor: every strongest mover is a candidate, tied or not.
CandidatesForAllStrongest(norm, ms, ord, target) ==
    LET unit_keys == SelectSeq(ord, LAMBDA k : k \in DOMAIN ms /\ norm[k].to_node = target)
        max_strength == MaxOf({ms[unit_keys[i]] : i \in 1..Len(unit_keys)})
    IN {k \in DOMAIN ms : norm[k].to_node = target /\ ms[k] = max_strength}

\* Mutant of CandidatesFor: a tie is broken in favour of the strongest mover
\* that comes first in iteration order.
CandidatesForFirst(norm, ms, ord, target) ==
    LET unit_keys == SelectSeq(ord, LAMBDA k : k \in DOMAIN ms /\ norm[k].to_node = target)
        max_strength == MaxOf({ms[unit_keys[i]] : i \in 1..Len(unit_keys)})
        strongest == SelectSeq(unit_keys, LAMBDA k : ms[k] = max_strength)
    IN IF Len(strongest) >= 1 THEN {strongest[1]} ELSE {}

\* _determine_candidate_moves, lines 121-129, for one target: the movers to it
\* in iteration order, the strongest of them, and the winner if it is alone.
CandidatesFor(norm, ms, ord, target) ==
    LET unit_keys == SelectSeq(ord, LAMBDA k : k \in DOMAIN ms /\ norm[k].to_node = target)
        max_strength == MaxOf({ms[unit_keys[i]] : i \in 1..Len(unit_keys)})
        strongest == SelectSeq(unit_keys, LAMBDA k : ms[k] = max_strength)
    IN IF Len(strongest) = 1 THEN {strongest[1]} ELSE {}

_determine_candidate_moves(norm, ms, ord) ==
    UNION {CandidatesFor(norm, ms, ord, norm[k].to_node) : k \in DOMAIN ms}

\* Mutant of Removed: the move fails only when strictly weaker (< for <=).
RemovedStrict(units, norm, ms, hs, ord, successful_moves, unit_key) ==
    LET target == norm[unit_key].to_node
        defender_key == _unit_at_node(units, ord, target)
        defender_is_moving == norm[defender_key].kind = "Move"
        defender_success == defender_key \in successful_moves
        defender_strength ==
            IF norm[defender_key].kind = "Hold"
            THEN (IF defender_key \in DOMAIN hs THEN hs[defender_key] ELSE 1)
            ELSE 1
    IN /\ defender_key # NoKey
       /\ defender_key # unit_key
       /\ ~(defender_is_moving /\ defender_success)
       /\ ms[unit_key] < defender_strength

\* Mutant of Removed: a holder's strength counts its base strength twice.
RemovedDoubleBase(units, norm, ms, hs, ord, successful_moves, unit_key) ==
    LET target == norm[unit_key].to_node
        defender_key == _unit_at_node(units, ord, target)
        defender_is_moving == norm[defender_key].kind = "Move"
        defender_success == defender_key \in successful_moves
        defender_strength ==
            IF norm[defender_key].kind = "Hold"
            THEN 1 + (IF defender_key \in DOMAIN hs THEN hs[defender_key] ELSE 1)
            ELSE 1
    IN /\ defender_key # NoKey
       /\ defender_key # unit_key
       /\ ~(defender_is_moving /\ defender_success)
       /\ ms[unit_key] <= defender_strength

\* Mutant of Removed: a defender with a Move order counts as leaving its node
\* whether or not its move is still in the success set.
RemovedUnlessMoving(units, norm, ms, hs, ord, successful_moves, unit_key) ==
    LET target == norm[unit_key].to_node
        defender_key == _unit_at_node(units, ord, target)
        defender_is_moving == norm[defender_key].kind = "Move"
        defender_strength ==
            IF norm[defender_key].kind = "Hold"
            THEN (IF defender_key \in DOMAIN hs THEN hs[defender_key] ELSE 1)
            ELSE 1
    IN /\ defender_key # NoKey
       /\ defender_key # unit_key
       /\ ~defender_is_moving
       /\ ms[unit_key] <= defender_strength

\* Mutant of Removed: the defender is given the hold-supports that name it
\* whatever its own order is.
RemovedCountingAnyDefender(units, norm, ms, hs, ord, successful_moves, unit_key) ==
    LET target == norm[unit_key].to_node
        defender_key == _unit_at_node(units, ord, target)
        defender_is_moving == norm[defender_key].kind = "Move"
        defender_success == defender_key \in successful_moves
        defender_strength ==
            1 + Cardinality({s \in DOMAIN norm :
                                /\ norm[s].kind = "Support"
                                /\ norm[s].to_node = None
                                /\ norm[s].supported = defender_key
                                /\ norm[s].from_node = units[defender_key]})
    IN /\ defender_key # NoKey
       /\ defender_key # unit_key
       /\ ~(defender_is_moving /\ defender_success)
       /\ ms[unit_key] <= defender_strength

\* Mutant of Removed: the strengths are compared even when the defender's own
\* move is in the success set.
RemovedAlwaysCompared(units, norm, ms, hs, ord, successful_moves, unit_key) ==
    LET target == norm[unit_key].to_node
        defender_key == _unit_at_node(units, ord, target)
        defender_strength ==
            IF norm[defender_key].kind = "Hold"
            THEN (IF defender_key \in DOMAIN hs THEN hs[defender_key] ELSE 1)
            ELSE 1
    IN /\ defender_key # NoKey
       /\ defender_key # unit_key
       /\ ms[unit_key] <= defender_strength

\* _resolve_move_success, lines 145-158: whether one pass removes unit_key,
\* judged against the success set as it stood when the pass began.
\* Mutant of Removed: a move onto a unit of the mover's own power never stands
\* while that unit stays.
RemovedByOwnPower(units, norm, ms, hs, ord, successful_moves, unit_key) ==
    LET target == norm[unit_key].to_node
        defender_key == _unit_at_node(units, ord, target)
        defender_is_moving == norm[defender_key].kind = "Move"
        defender_success == defender_key \in successful_moves
        defender_strength ==
            IF norm[defender_key].kind = "Hold"
            THEN (IF defender_key \in DOMAIN hs THEN hs[defender_key] ELSE 1)
            ELSE 1
    IN /\ defender_key # NoKey
       /\ defender_key # unit_key
       /\ ~(defender_is_moving /\ defender_success)
       /\ ms[unit_key] <= defender_strength \/ defender_key[1] = unit_key[1]

Removed(units, norm, ms, hs, ord, successful_moves, unit_key) ==
    LET target == norm[unit_key].to_node
        defender_key == _unit_at_node(units, ord, target)
        defender_is_moving == norm[defender_key].kind = "Move"
        defender_success == defender_key \in successful_moves
        defender_strength ==
            IF norm[defender_key].kind = "Hold"
            THEN (IF defender_key \in DOMAIN hs THEN hs[defender_key] ELSE 1)
            ELSE 1
    IN /\ defender_key # NoKey
       /\ defender_key # unit_key
       /\ ~(defender_is_moving /\ defender_success)
       /\ ms[unit_key] <= defender_strength

\* _resolve_move_success, lines 141-162: passes until one removes nothing.
RECURSIVE _resolve_move_success(_, _, _, _, _, _)
_resolve_move_success(units, norm, ms, hs, ord, successful_moves) ==
    LET removals == {k \in successful_moves :
                        Removed(units, norm, ms, hs, ord, successful_moves, k)}
    IN IF removals = {} THEN successful_moves
       ELSE _resolve_move_success(units, norm, ms, hs, ord, successful_moves \ removals)

\* Mutant of Dislodged: no unit is recorded as dislodged.
DislodgedNone(units, norm, ord, successful_moves) == {}

\* _apply_moves, lines 173-178: the units a successful move pushes out.
Dislodged(units, norm, ord, successful_moves) ==
    {d \in DOMAIN units :
        /\ d \notin successful_moves
        /\ \E k \in successful_moves : _unit_at_node(units, ord, norm[k].to_node) = d}

\* adjudicate_orders, lines 25-42, and _apply_moves, lines 173-178, under one
\* iteration order: the moves that succeed and the units they dislodge.
Resolution(units, norm, ms, hs, ord) ==
    LET successful_moves ==
            _resolve_move_success(units, norm, ms, hs, ord,
                                  _determine_candidate_moves(norm, ms, ord))
    IN [successful_moves |-> successful_moves,
        dislodged |-> Dislodged(units, norm, ord, successful_moves)]

\* The resolutions of one call, over the orders in which it may iterate.
Resolutions(units, ords) ==
    LET norm == _normalize_orders(units, ords)
        ms == _compute_move_strengths(units, norm)
        hs == _compute_hold_strengths(units, norm)
    IN {Resolution(units, norm, ms, hs, ord) : ord \in IterOrders(units)}

\* ------------------------------------------------------------------ heaps
Heap == [objs |-> objs, tops |-> tops, inners |-> inners, centers |-> centers]

\* New inner dicts are laid out in the heap by the rank of their power.
PowerNames == <<"p1", "p2">>
PowerIndex(p) == CHOOSE j \in 1..Len(PowerNames) : PowerNames[j] = p
Rank(p, P) == Cardinality({q \in P : PowerIndex(q) <= PowerIndex(p)})
PowerAt(j, P) == CHOOSE p \in P : Rank(p, P) = j

\* Mutant of CopyUnits: dict(d), a new top-level dict over the same inner dicts.
CopyUnitsShallow(h, top) ==
    [objs |-> h.objs,
     tops |-> Append(h.tops, h.tops[top]),
     inners |-> h.inners,
     centers |-> h.centers,
     ret |-> Len(h.tops) + 1]

\* {power: dict(units) for power, units in d.items()}: a new top-level dict
\* whose values are new copies of the inner dicts of the dict at address top.
\* Returns the heap after the allocation and the new dict's address in ret.
CopyUnits(h, top) ==
    LET P == DOMAIN h.tops[top]
        copies == [j \in 1..Cardinality(P) |-> h.inners[h.tops[top][PowerAt(j, P)]]]
        fresh == [p \in P |-> Len(h.inners) + Rank(p, P)]
    IN [objs |-> h.objs,
        tops |-> Append(h.tops, fresh),
        inners |-> h.inners \o copies,
        centers |-> h.centers,
        ret |-> Len(h.tops) + 1]

\* Mutant of CopyCenters: the center_owner dict itself, not a copy of it.
CopyCentersShared(h, c) ==
    [objs |-> h.objs, tops |-> h.tops, inners |-> h.inners, centers |-> h.centers,
     ret |-> c]

\* dict(self.center_owner): a new dict with the same items.
CopyCenters(h, c) ==
    [objs |-> h.objs, tops |-> h.tops, inners |-> h.inners,
     centers |-> Append(h.centers, h.centers[c]),
     ret |-> Len(h.centers) + 1]

\* Mutant of clone: the copy is given the next turn number.
clone_next_turn(h, s) ==
    LET h1 == CopyUnits(h, h.objs[s].units)
        h2 == CopyCenters(h1, h.objs[s].center_owner)
        obj == [units |-> h1.ret, center_owner |-> h2.ret, turn |-> h.objs[s].turn + 1]
    IN [objs |-> Append(h2.objs, obj), tops |-> h2.tops, inners |-> h2.inners,
        centers |-> h2.centers, ret |-> Len(h2.objs) + 1]

\* GameState.clone: a new GameState over new dicts.
clone(h, s) ==
    LET h1 == CopyUnits(h, h.objs[s].units)
        h2 == CopyCenters(h1, h.objs[s].center_owner)
        obj == [units |-> h1.ret, center_owner |-> h2.ret, turn |-> h.objs[s].turn]
    IN [objs |-> Append(h2.objs, obj), tops |-> h2.tops, inners |-> h2.inners,
        centers |-> h2.centers, ret |-> Len(h2.objs) + 1]

\* Mutant of Relocated: the dislodged units are not deleted.
RelocatedKeepingAll(inner, p, norm, successful_moves, dislodged) ==
    [u \in DOMAIN inner |->
        IF <<p, u>> \in successful_moves THEN norm[<<p, u>>].to_node ELSE inner[u]]

\* _apply_moves, lines 180-186, on the inner dict of power p: the dislodged
\* units are deleted, then the successful movers are given their target.
Relocated(inner, p, norm, successful_moves, dislodged) ==
    [u \in {x \in DOMAIN inner : <<p, x>> \notin dislodged} |->
        IF <<p, u>> \in successful_moves THEN norm[<<p, u>>].to_node ELSE inner[u]]

\* _apply_moves: clone the state, build new_units, delete the dislodged units,
\* relocate the successful movers, and set new_state.units.
_apply_moves(h, s, norm, successful_moves, dislodged) ==
    LET h1 == clone(h, s)
        new_state == h1.ret
        h2 == CopyUnits(h1, h1.objs[s].units)
        new_units == h2.ret
        top == h2.tops[new_units]
        owner(a) == CHOOSE p \in DOMAIN top : top[p] = a
        written == {top[p] : p \in DOMAIN top}
    IN [objs |-> [h2.objs EXCEPT ![new_state].units = new_units],
        tops |-> h2.tops,
        inners |-> [a \in DOMAIN h2.inners |->
                      IF a \in written
                      THEN Relocated(h2.inners[a], owner(a), norm, successful_moves, dislodged)
                      ELSE h2.inners[a]],
        centers |-> h2.centers,
        ret |-> new_state]

\* adjudicate_orders: the heaps after a call that resolved the orders as res,
\* and the returned address.
adjudicate_orders(h, s, ords, res) ==
    _apply_moves(h, s, _normalize_orders(UnitsOf(h.objs, h.tops, h.inners, s), ords),
                 res.successful_moves, res.dislodged)

\* ----------------------------------------------------------------- inputs
\* A board of n units: unit j of AllKeys stands on node j, so no two units
\* share a node.
Board(n) == [k \in {AllKeys[j] : j \in 1..n} |-> NodeNames[CHOOSE j \in 1..n : AllKeys[j] = k]]

\* The orders a caller may give a unit: Hold, a Move to any node, or a Support
\* of another unit on the board, for its hold (to_node None) or for a move to
\* any node, declaring either the supported unit's node or, as a stale value,
\* the node after it.
PlainChoices == {Hold} \cup {Move(to) : to \in Nodes}
NextNode(node) ==
    LET j == CHOOSE x \in 1..Len(NodeNames) : NodeNames[x] = node
    IN NodeNames[(j % Len(NodeNames)) + 1]
SupportChoices(units) ==
    UNION {{Support(sk, from, to) : from \in {units[sk], NextNode(units[sk])},
                                    to \in Nodes \cup {None}} :
           sk \in DOMAIN units}

\* The units that give a Support order: at most MaxSupports of them.
SupporterSets(units) ==
    {S \in SUBSET DOMAIN units : Cardinality(S) <= MaxSupports}

\* The mapping made of the Support orders sup and the other orders plain.
Merge(sup, plain) ==
    [k \in DOMAIN sup \cup DOMAIN plain |-> IF k \in DOMAIN sup THEN sup[k] ELSE plain[k]]

\* Every orders mapping over the units of the board: a unit may be left without
\* an order, and no unit supports itself.
OrdersGiven(units) ==
    \E S \in SupporterSets(units) :
      \E D \in SUBSET (DOMAIN units \ S) :
        \E sup \in [S -> SupportChoices(units)] :
          \E plain \in [D -> PlainChoices] :
            /\ \A k \in S : sup[k].supported # k
            /\ orders = Merge(sup, plain)

InitialCenters ==
    [n \in {NodeNames[1], NodeNames[2]} \cap Nodes |->
        IF n = NodeNames[1] THEN "p1" ELSE None]

\* The heap holding one GameState with the units of Board(n).
InitHeap(n) ==
    LET units == Board(n)
        P == {k[1] : k \in DOMAIN units}
    IN /\ objs = <<[units |-> 1, center_owner |-> 1, turn |-> 0]>>
       /\ tops = <<[p \in P |-> Rank(p, P)]>>
       /\ inners = [j \in 1..Cardinality(P) |->
                      [u \in {k[2] : k \in {x \in DOMAIN units : x[1] = PowerAt(j, P)}} |->
                          units[<<PowerAt(j, P), u>>]]]
       /\ centers = <<InitialCenters>>
       /\ state = 1

\* The powers argument of run_turn: None, or a list of powers.
NoPowers == [given |-> FALSE, list |-> <<>>]
Given(list) == [given |-> TRUE, list |-> list]

\* No deal: None where a deal may stand.
NoDeal == [kind |-> None, label |-> <<>>]

\* No negotiation protocol has been made and no method of a deal was called.
IdleTalk ==
    /\ participants = <<>>
    /\ accepted_deals_by_power = <<>>
    /\ powers = NoPowers
    /\ replies = <<>>
    /\ accepted = <<>>
    /\ calls = <<>>
IdleDeal ==
    /\ deal = NoDeal
    /\ allowed = <<>>
    /\ submitted = <<>>
    /\ found = <<>>
    /\ active_deals = <<>>

\* No Game has been made.
NoResult == [winner |-> None, draw |-> FALSE, centers |-> <<>>, turn |-> 0, reason |-> ""]
IdleGame ==
    /\ target_centers = 0
    /\ max_turns = 0
    /\ eliminated = {}
    /\ initial_turn = 0
    /\ rounds = 0
    /\ result = NoResult

\* No call is being followed pass by pass.
IdleLoop == successful = {} /\ passes = 0

\* No map has been passed and no map or order-generation call was made.
NoMap == [name |-> "", nodes |-> <<>>, edges |-> <<>>, supply_centers |-> <<>>,
          home_centers |-> <<>>]
IdleMap ==
    /\ map_def = NoMap
    /\ power = None
    /\ error = None
    /\ orders_by_unit = <<>>

InitWith(sizes) ==
    \E n \in sizes :
        /\ InitHeap(n)
        /\ OrdersGiven(Board(n))
        /\ pc = "call"
        /\ before = [units |-> <<>>, center_owner |-> <<>>, turn |-> 0]
        /\ next_state = 0
        /\ again_orders = <<>>
        /\ again = 0
        /\ IdleLoop
        /\ IdleTalk
        /\ IdleDeal
        /\ IdleGame
        /\ IdleMap

Init == InitWith(BoardSizes)

\* ---------------------------------------------------------------- actions
Install(r) ==
    /\ objs' = r.objs
    /\ tops' = r.tops
    /\ inners' = r.inners
    /\ centers' = r.centers

\* The input state as the adjudicator reads it.
Units == UnitsOf(objs, tops, inners, state)

\* next_state = adjudicate_orders(state, orders)
Adjudicate ==
    /\ pc = "call"
    /\ \E res \in Resolutions(Units, orders) :
          LET r == adjudicate_orders(Heap, state, orders, res)
          IN Install(r) /\ next_state' = r.ret
    /\ before' = ValueOf(objs, tops, inners, centers, state)
    /\ pc' = "returned"
    /\ UNCHANGED <<state, orders, again_orders, again, loopVars, mapVars, talkVars, dealVars, gameVars>>

\* A second call with the same arguments.
AdjudicateAgain ==
    /\ pc = "returned"
    /\ \E res \in Resolutions(Units, orders) :
          LET r == adjudicate_orders(Heap, state, orders, res)
          IN Install(r) /\ again' = r.ret
    /\ again_orders' = orders
    /\ pc' = "repeated"
    /\ UNCHANGED <<state, orders, before, next_state, loopVars, mapVars, talkVars, dealVars, gameVars>>

\* The orders mapping with an explicit Hold for every unit it leaves out.
WithExplicitHolds(units, ords) ==
    [k \in DOMAIN units \cup DOMAIN ords |-> IF k \in DOMAIN ords THEN ords[k] ELSE Hold]

\* A second call in which every unit left without an order is given a Hold.
AdjudicateExplicit ==
    /\ pc = "returned"
    /\ DOMAIN orders # DOMAIN Units
    /\ LET ords == WithExplicitHolds(Units, orders)
       IN /\ \E res \in Resolutions(Units, ords) :
                LET r == adjudicate_orders(Heap, state, ords, res)
                IN Install(r) /\ again' = r.ret
          /\ again_orders' = ords
    /\ pc' = "explicit"
    /\ UNCHANGED <<state, orders, before, next_state, loopVars, mapVars, talkVars, dealVars, gameVars>>

Next == Adjudicate \/ AdjudicateAgain \/ AdjudicateExplicit

Spec == Init /\ [][Next]_vars

\* ------------------------------------------------- mutations by the caller
UnitIds == {k[2] : k \in {AllKeys[j] : j \in 1..Len(AllKeys)}}
Powers == {k[1] : k \in {AllKeys[j] : j \in 1..Len(AllKeys)}}
Put(d, k, v) == [x \in DOMAIN d \cup {k} |-> IF x = k THEN v ELSE d[x]]
Without(d, k) == [x \in DOMAIN d \ {k} |-> d[x]]

\* next_state.units[p][u] = node
SetUnit ==
    /\ pc = "returned"
    /\ \E p \in DOMAIN tops[objs[next_state].units], u \in UnitIds, node \in Nodes :
          inners' = [inners EXCEPT ![tops[objs[next_state].units][p]] = Put(@, u, node)]
    /\ pc' = "changed"
    /\ UNCHANGED <<objs, tops, centers, state, orders, before, next_state,
                   again_orders, again, loopVars, mapVars, talkVars, dealVars, gameVars>>

\* del next_state.units[p][u]
DelUnit ==
    /\ pc = "returned"
    /\ \E p \in DOMAIN tops[objs[next_state].units] :
          \E u \in DOMAIN inners[tops[objs[next_state].units][p]] :
             inners' = [inners EXCEPT ![tops[objs[next_state].units][p]] = Without(@, u)]
    /\ pc' = "changed"
    /\ UNCHANGED <<objs, tops, centers, state, orders, before, next_state,
                   again_orders, again, loopVars, mapVars, talkVars, dealVars, gameVars>>

\* del next_state.units[p]
DropPower ==
    /\ pc = "returned"
    /\ \E p \in DOMAIN tops[objs[next_state].units] :
          tops' = [tops EXCEPT ![objs[next_state].units] = Without(@, p)]
    /\ pc' = "changed"
    /\ UNCHANGED <<objs, inners, centers, state, orders, before, next_state,
                   again_orders, again, loopVars, mapVars, talkVars, dealVars, gameVars>>

\* next_state.center_owner[node] = owner
SetCenter ==
    /\ pc = "returned"
    /\ \E node \in Nodes, owner \in Powers \cup {None} :
          /\ (node \in DOMAIN centers[objs[next_state].center_owner]
                => centers[objs[next_state].center_owner][node] # owner)
          /\ centers' = [centers EXCEPT ![objs[next_state].center_owner] = Put(@, node, owner)]
    /\ pc' = "changed"
    /\ UNCHANGED <<objs, tops, inners, state, orders, before, next_state,
                   again_orders, again, loopVars, mapVars, talkVars, dealVars, gameVars>>

\* A call on a board of fewer units, after which the caller changes the result.
InitFrame == InitWith(1..(Len(AllKeys) - 1))
NextFrame == Adjudicate \/ SetUnit \/ DelUnit \/ DropPower \/ SetCenter
SpecFrame == InitFrame /\ [][NextFrame]_vars

\* ------------------------------------------- the same board, other owners
\* The key of a unit that is given the power owner[k], and what the caller
\* then passes: the orders under the new keys, a Support naming the new key of
\* the unit it supports, and a GameState with the units under their new powers
\* and the owners of the centers renamed by rename.
Reowned(owner, k) == IF k \in DOMAIN owner THEN <<owner[k], k[2]>> ELSE k
ReownedOrders(owner, ords) ==
    [x \in {Reowned(owner, k) : k \in DOMAIN ords} |->
        LET o == ords[CHOOSE k \in DOMAIN ords : Reowned(owner, k) = x]
        IN IF o.kind = "Support"
           THEN Support(Reowned(owner, o.supported), o.from_node, o.to_node)
           ELSE o]
ReownedState(h, s, owner, rename) ==
    LET units == UnitsOf(h.objs, h.tops, h.inners, s)
        P == {owner[k] : k \in DOMAIN units}
    IN [objs |-> Append(h.objs, [units |-> Len(h.tops) + 1,
                                 center_owner |-> Len(h.centers) + 1,
                                 turn |-> h.objs[s].turn]),
        tops |-> Append(h.tops, [p \in P |-> Len(h.inners) + Rank(p, P)]),
        inners |-> h.inners \o
                   [j \in 1..Cardinality(P) |->
                       [u \in {k[2] : k \in {x \in DOMAIN units : owner[x] = PowerAt(j, P)}} |->
                           units[CHOOSE k \in DOMAIN units : k[2] = u]]],
        centers |-> Append(h.centers,
                           [c \in DOMAIN h.centers[h.objs[s].center_owner] |->
                               rename[h.centers[h.objs[s].center_owner][c]]]),
        ret |-> Len(h.objs) + 1]

\* A second call, on the state and the orders that owner and rename make of
\* the first call's.
AdjudicateReowned(owner, rename) ==
    LET h == ReownedState(Heap, state, owner, rename)
        ords == ReownedOrders(owner, orders)
    IN /\ \E res \in Resolutions(UnitsOf(h.objs, h.tops, h.inners, h.ret), ords) :
             LET r == adjudicate_orders(h, h.ret, ords, res)
             IN Install(r) /\ again' = r.ret
       /\ again_orders' = ords
       /\ UNCHANGED <<state, orders, before, next_state, loopVars, mapVars, talkVars,
                      dealVars, gameVars>>

\* The two powers exchanged, and owners left as they are.
Exchanged == [p \in Powers \cup {None} |->
                 IF p = "p1" THEN "p2" ELSE IF p = "p2" THEN "p1" ELSE p]
Same == [p \in Powers \cup {None} |-> p]

\* A second call with the two powers exchanged in the state and in the orders.
AdjudicateRenamed ==
    /\ pc = "returned"
    /\ pc' = "renamed"
    /\ AdjudicateReowned([k \in DOMAIN Units |-> Exchanged[k[1]]], Exchanged)

\* A second call with every unit of the board given to one power.
AdjudicateOwnPower ==
    /\ pc = "returned"
    /\ pc' = "own power"
    /\ \E p \in Powers : AdjudicateReowned([k \in DOMAIN Units |-> p], Same)

InitBlind == InitWith(1..(Len(AllKeys) - 1))
NextBlind == Adjudicate \/ AdjudicateRenamed \/ AdjudicateOwnPower
SpecBlind == InitBlind /\ [][NextBlind]_vars

\* Every orders mapping of OrdersGiven, with or without entries for keys of
\* AllKeys that are not units of the board: a Hold, a Move, or a Support of a
\* unit's move from the node it stands on.
StrayChoices(units) ==
    PlainChoices \cup {o \in SupportChoices(units) :
                          o.from_node = units[o.supported] /\ o.to_node # None}
OrdersWithStrays(units) ==
    \E S \in SupporterSets(units) :
      \E D \in SUBSET (DOMAIN units \ S) :
        \E X \in SUBSET ({AllKeys[j] : j \in 1..Len(AllKeys)} \ DOMAIN units) :
          \E sup \in [S -> SupportChoices(units)] :
            \E plain \in [D -> PlainChoices] :
              \E stray \in [X -> StrayChoices(units)] :
                /\ \A k \in S : sup[k].supported # k
                /\ orders = Merge(stray, Merge(sup, plain))

\* A call on a board of fewer units whose orders mapping may name units that
\* are not in the state.
InitStray ==
    \E n \in 1..(Len(AllKeys) - 1) :
        /\ InitHeap(n)
        /\ OrdersWithStrays(Board(n))
        /\ pc = "call"
        /\ before = [units |-> <<>>, center_owner |-> <<>>, turn |-> 0]
        /\ next_state = 0
        /\ again_orders = <<>>
        /\ again = 0
        /\ IdleLoop
        /\ IdleTalk
        /\ IdleDeal
        /\ IdleGame
        /\ IdleMap
NextStray == Adjudicate
SpecStray == InitStray /\ [][NextStray]_vars

\* ------------------------------------------------------- GameState.clone
\* The greatest turn number of a state that is cloned.
MaxTurn == 1

\* The center_owner dicts of a state that is cloned.
CenterOwners ==
    {<<>>, InitialCenters}

\* One GameState in the heap, with some of the units of AllKeys, possibly a
\* power that has no unit, some centers and some turn number.
InitClone ==
    /\ \E P \in SUBSET Powers :
          \E t \in 0..MaxTurn, c \in CenterOwners :
            /\ objs = <<[units |-> 1, center_owner |-> 1, turn |-> t]>>
            /\ tops = <<[p \in P |-> Rank(p, P)]>>
            /\ \E K \in SUBSET {k \in {AllKeys[j] : j \in 1..Len(AllKeys)} : k[1] \in P} :
                  inners = [j \in 1..Cardinality(P) |->
                               [u \in {k[2] : k \in {x \in K : x[1] = PowerAt(j, P)}} |->
                                   Board(Len(AllKeys))[<<PowerAt(j, P), u>>]]]
            /\ centers = <<c>>
    /\ state = 1
    /\ orders = <<>>
    /\ pc = "call"
    /\ before = [units |-> <<>>, center_owner |-> <<>>, turn |-> 0]
    /\ next_state = 0
    /\ again_orders = <<>>
    /\ again = 0
    /\ IdleLoop
    /\ IdleTalk
    /\ IdleDeal
    /\ IdleGame
    /\ IdleMap

\* next_state = state.clone()
Clone ==
    /\ pc = "call"
    /\ LET r == clone(Heap, state)
       IN Install(r) /\ next_state' = r.ret
    /\ before' = ValueOf(objs, tops, inners, centers, state)
    /\ pc' = "cloned"
    /\ UNCHANGED <<state, orders, again_orders, again, loopVars, mapVars, talkVars, dealVars, gameVars>>

\* The position of a caller that has changed the GameState at address s.
Changed(s) == IF s = state THEN "changed original" ELSE "changed clone"

\* s.units[p][u] = node, for the original or the clone.
CloneSetUnit ==
    /\ pc = "cloned"
    /\ \E s \in {state, next_state} :
          /\ \E p \in DOMAIN tops[objs[s].units], u \in UnitIds, node \in Nodes :
                /\ (u \in DOMAIN inners[tops[objs[s].units][p]]
                      => inners[tops[objs[s].units][p]][u] # node)
                /\ inners' = [inners EXCEPT ![tops[objs[s].units][p]] = Put(@, u, node)]
          /\ pc' = Changed(s)
    /\ UNCHANGED <<objs, tops, centers, state, orders, before, next_state,
                   again_orders, again, loopVars, mapVars, talkVars, dealVars, gameVars>>

\* del s.units[p][u]
CloneDelUnit ==
    /\ pc = "cloned"
    /\ \E s \in {state, next_state} :
          /\ \E p \in DOMAIN tops[objs[s].units] :
                \E u \in DOMAIN inners[tops[objs[s].units][p]] :
                   inners' = [inners EXCEPT ![tops[objs[s].units][p]] = Without(@, u)]
          /\ pc' = Changed(s)
    /\ UNCHANGED <<objs, tops, centers, state, orders, before, next_state,
                   again_orders, again, loopVars, mapVars, talkVars, dealVars, gameVars>>

\* del s.units[p]
CloneDropPower ==
    /\ pc = "cloned"
    /\ \E s \in {state, next_state} :
          /\ \E p \in DOMAIN tops[objs[s].units] :
                tops' = [tops EXCEPT ![objs[s].units] = Without(@, p)]
          /\ pc' = Changed(s)
    /\ UNCHANGED <<objs, inners, centers, state, orders, before, next_state,
                   again_orders, again, loopVars, mapVars, talkVars, dealVars, gameVars>>

\* s.units[p] = {u: node}, for a power the state does not have: a new inner
\* dict under a new top-level key.
CloneAddPower ==
    /\ pc = "cloned"
    /\ \E s \in {state, next_state} :
          /\ \E p \in Powers \ DOMAIN tops[objs[s].units], u \in UnitIds, node \in Nodes :
                /\ inners' = Append(inners, [x \in {u} |-> node])
                /\ tops' = [tops EXCEPT ![objs[s].units] = Put(@, p, Len(inners) + 1)]
          /\ pc' = Changed(s)
    /\ UNCHANGED <<objs, centers, state, orders, before, next_state,
                   again_orders, again, loopVars, mapVars, talkVars, dealVars, gameVars>>

\* s.center_owner[node] = owner
CloneSetCenter ==
    /\ pc = "cloned"
    /\ \E s \in {state, next_state} :
          /\ \E node \in Nodes, owner \in Powers \cup {None} :
                /\ (node \in DOMAIN centers[objs[s].center_owner]
                      => centers[objs[s].center_owner][node] # owner)
                /\ centers' = [centers EXCEPT ![objs[s].center_owner] = Put(@, node, owner)]
          /\ pc' = Changed(s)
    /\ UNCHANGED <<objs, tops, inners, state, orders, before, next_state,
                   again_orders, again, loopVars, mapVars, talkVars, dealVars, gameVars>>

\* s.turn += 1
CloneSetTurn ==
    /\ pc = "cloned"
    /\ \E s \in {state, next_state} :
          /\ objs' = [objs EXCEPT ![s].turn = @ + 1]
          /\ pc' = Changed(s)
    /\ UNCHANGED <<tops, inners, centers, state, orders, before, next_state,
                   again_orders, again, loopVars, mapVars, talkVars, dealVars, gameVars>>

NextClone ==
    \/ Clone
    \/ CloneSetUnit
    \/ CloneDelUnit
    \/ CloneDropPower
    \/ CloneAddPower
    \/ CloneSetCenter
    \/ CloneSetTurn

SpecClone == InitClone /\ [][NextClone]_vars

\* --------------------------------------- the first call, followed pass by pass
\* The most Support orders one orders mapping holds when the call is followed
\* pass by pass.
MaxLoopSupports == 2

\* The Support orders that declare the node the supported unit stands on.
CurrentSupportChoices(units) ==
    {o \in SupportChoices(units) : o.from_node = units[o.supported]}

\* Every orders mapping that gives each unit of the board an order, at most
\* MaxLoopSupports of them Support orders of another unit from its node.
OrdersForAll(units) ==
    \E S \in {X \in SUBSET DOMAIN units : Cardinality(X) <= MaxLoopSupports} :
      \E sup \in [S -> CurrentSupportChoices(units)] :
        \E plain \in [DOMAIN units \ S -> {Hold} \cup {Move(to) : to \in Nodes}] :
          /\ \A k \in S : sup[k].supported # k
          /\ orders = Merge(sup, plain)

InitLoopWith(sizes) ==
    \E n \in sizes :
        /\ InitHeap(n)
        /\ OrdersForAll(Board(n))
        /\ pc = "call"
        /\ before = [units |-> <<>>, center_owner |-> <<>>, turn |-> 0]
        /\ next_state = 0
        /\ again_orders = <<>>
        /\ again = 0
        /\ IdleLoop
        /\ IdleTalk
        /\ IdleDeal
        /\ IdleGame
        /\ IdleMap

InitLoop == InitLoopWith(BoardSizes)

\* adjudicate_orders, lines 25-34, and _resolve_move_success, line 141: the
\* success set starts as the candidate moves.
Resolve ==
    /\ pc = "call"
    /\ LET norm == _normalize_orders(Units, orders)
           ms == _compute_move_strengths(Units, norm)
       IN \E candidate_moves \in {_determine_candidate_moves(norm, ms, ord) :
                                     ord \in IterOrders(Units)} :
             successful' = candidate_moves
    /\ passes' = 0
    /\ before' = ValueOf(objs, tops, inners, centers, state)
    /\ pc' = "loop"
    /\ UNCHANGED <<objs, tops, inners, centers, state, orders, next_state,
                   again_orders, again, mapVars, talkVars, dealVars, gameVars>>

\* Mutant of difference_update: the removals are not taken out of the set.
difference_update_skipped(successful_moves, removals) == successful_moves

\* set.difference_update, line 161.
difference_update(successful_moves, removals) == successful_moves \ removals

\* _resolve_move_success, lines 143-158: the removals of one pass.
Removals(units, norm, ms, hs, ord, successful_moves) ==
    {k \in successful_moves : Removed(units, norm, ms, hs, ord, successful_moves, k)}

\* _resolve_move_success, lines 142-161: one pass of the while loop.  The guard
\* on passes bounds the counter; the loop itself has no such test.
Pass ==
    /\ pc = "loop"
    /\ passes <= Len(AllKeys) + 1
    /\ LET norm == _normalize_orders(Units, orders)
           ms == _compute_move_strengths(Units, norm)
           hs == _compute_hold_strengths(Units, norm)
       IN \E removals \in {Removals(Units, norm, ms, hs, ord, successful) :
                              ord \in IterOrders(Units)} :
             IF removals = {}
             THEN pc' = "resolved" /\ successful' = successful
             ELSE pc' = "loop" /\ successful' = difference_update(successful, removals)
    /\ passes' = passes + 1
    /\ UNCHANGED <<objs, tops, inners, centers, state, orders, before, next_state,
                   again_orders, again, mapVars, talkVars, dealVars, gameVars>>

\* _resolve_move_success, line 162, and adjudicate_orders, line 44.
Apply ==
    /\ pc = "resolved"
    /\ LET norm == _normalize_orders(Units, orders)
       IN \E dislodged \in {Dislodged(Units, norm, ord, successful) :
                               ord \in IterOrders(Units)} :
             LET r == _apply_moves(Heap, state, norm, successful, dislodged)
             IN Install(r) /\ next_state' = r.ret
    /\ pc' = "returned"
    /\ UNCHANGED <<state, orders, before, again_orders, again, loopVars, mapVars, talkVars, dealVars, gameVars>>

NextLoop == Resolve \/ Pass \/ Apply

SpecLoop == InitLoop /\ [][NextLoop]_vars

\* The call on a board of fewer units: nothing suspends the while loop, so a
\* pass that can be made is made.
InitLoopFair == InitLoopWith(1..(Len(AllKeys) - 1))
SpecLoopFair == InitLoopFair /\ [][NextLoop]_vars /\ WF_vars(Pass)

\* ------------------------------------------------------------------ map.py
\* The most edges a drawn map has.
MaxEdges == 2

Range(seq) == {seq[i] : i \in DOMAIN seq}

\* A value of home_centers: one node name, as the annotation dict[str, str]
\* declares it, or a tuple of node names, as the shipped maps give it.  A tuple
\* is never equal to a string.
Name(n) == [tuple |-> FALSE, items |-> <<n>>]
Group(ns) == [tuple |-> TRUE, items |-> ns]

\* A dict with the single item k: v.
Item(k, v) == [x \in {k} |-> v]

\* maps/triangle3.py and maps/sample4.py: MAP_DEF.
triangle3 ==
    [name |-> "triangle3",
     nodes |-> <<"A1", "A2", "B1", "B2", "C1", "C2", "N1", "N2", "N3", "N4", "X">>,
     edges |-> << <<"A1", "A2">>, <<"A1", "N1">>, <<"A2", "N2">>, <<"N1", "N2">>,
                  <<"N1", "X">>, <<"N2", "X">>, <<"B1", "B2">>, <<"B1", "N2">>,
                  <<"B2", "N3">>, <<"N2", "N3">>, <<"N3", "X">>, <<"C1", "C2">>,
                  <<"C1", "N3">>, <<"C2", "N4">>, <<"N3", "N4">>, <<"N4", "X">>,
                  <<"N4", "N1">> >>,
     supply_centers |-> <<"A1", "A2", "B1", "B2", "C1", "C2", "N1", "N2", "N3", "N4", "X">>,
     home_centers |-> [p \in {"A", "B", "C"} |->
                          Group(IF p = "A" THEN <<"A1", "A2">>
                                ELSE IF p = "B" THEN <<"B1", "B2">> ELSE <<"C1", "C2">>)]]

sample4 ==
    [name |-> "sample4",
     nodes |-> <<"A1", "A2", "B1", "B2", "C1", "C2", "D1", "D2",
                 "N1", "N2", "N3", "N4", "X", "Y">>,
     edges |-> << <<"A1", "A2">>, <<"A1", "N1">>, <<"A1", "N4">>, <<"A2", "N1">>,
                  <<"B1", "B2">>, <<"B1", "N1">>, <<"B1", "N2">>, <<"B2", "N2">>,
                  <<"C1", "C2">>, <<"C1", "N2">>, <<"C1", "N3">>, <<"C2", "N3">>,
                  <<"D1", "D2">>, <<"D1", "N3">>, <<"D1", "N4">>, <<"D2", "N4">>,
                  <<"N1", "N2">>, <<"N2", "N3">>, <<"N3", "N4">>, <<"N4", "N1">>,
                  <<"N1", "X">>, <<"N2", "X">>, <<"N3", "X">>, <<"N4", "X">>,
                  <<"X", "Y">> >>,
     supply_centers |-> <<"A1", "A2", "B1", "B2", "C1", "C2", "D1", "D2",
                          "N1", "N2", "N3", "N4", "X", "Y">>,
     home_centers |-> [p \in {"A", "B", "C", "D"} |->
                          Group(IF p = "A" THEN <<"A1", "A2">>
                                ELSE IF p = "B" THEN <<"B1", "B2">>
                                ELSE IF p = "C" THEN <<"C1", "C2">> ELSE <<"D1", "D2">>)]]

\* networkx.Graph, as a function from each node of the graph to the list of
\* its neighbours in the order they were added.
\*
\* Graph.add_edges_from adds an endpoint that is not yet a node of the graph:
\* the nodes that the edges bring in.
Endpoints(edges) == UNION {{edges[i][1], edges[i][2]} : i \in DOMAIN edges}

\* Graph.add_edges_from makes each endpoint of an edge a neighbour of the
\* other, once: the neighbours of n are the other endpoints of the edges at n,
\* in the order of the first edge that names each.  An edge from n to n makes
\* n a neighbour of itself.
Adjacent(edges, n) ==
    LET other(i) == IF edges[i][1] = n THEN edges[i][2] ELSE edges[i][1]
        at == {i \in DOMAIN edges : n \in {edges[i][1], edges[i][2]}}
        first == {i \in at : \A j \in at : j < i => other(j) # other(i)}
    IN [k \in 1..Cardinality(first) |->
           other(CHOOSE i \in first : Cardinality({j \in first : j <= i}) = k)]

\* _build_graph: Graph(), add_nodes_from(map_def.nodes), add_edges_from(map_def.edges)
_build_graph(m) ==
    [n \in Range(m.nodes) \cup Endpoints(m.edges) |-> Adjacent(m.edges, n)]

\* MapDef.neighbors
neighbors(m, node) ==
    LET graph == _build_graph(m)
    IN IF node \notin DOMAIN graph THEN <<>> ELSE graph[node]

\* tuple(sorted((left, right))): the same value for an edge and its reverse,
\* different values for different unordered pairs.
canonical(left, right) == {left, right}

\* validate_map, lines 30-36: the error the loop over the edges raises, if any.
RECURSIVE EdgeError(_, _, _)
EdgeError(graph, edges, edge_set) ==
    IF edges = <<>> THEN None
    ELSE LET left == Head(edges)[1]
             right == Head(edges)[2]
         IN IF left \notin DOMAIN graph \/ right \notin DOMAIN graph
            THEN "map edge references unknown node"
            ELSE IF canonical(left, right) \in edge_set
            THEN "map edges contain duplicates"
            ELSE EdgeError(graph, Tail(edges), edge_set \cup {canonical(left, right)})

\* home_center not in node_set, for one value of home_centers.
NotInNodeSet(home_center, node_set) ==
    home_center.tuple \/ home_center.items[1] \notin node_set

\* validate_map: the message of the ValueError it raises, or None when it
\* returns.
validate_map(m) ==
    LET node_set == Range(m.nodes)
    IN IF Cardinality(node_set) # Len(m.nodes)
       THEN "map nodes contain duplicates"
       ELSE IF EdgeError(_build_graph(m), m.edges, {}) # None
       THEN EdgeError(_build_graph(m), m.edges, {})
       ELSE IF ~(Range(m.supply_centers) \subseteq node_set)
       THEN "supply centers must be a subset of nodes"
       ELSE IF \E p \in DOMAIN m.home_centers : NotInNodeSet(m.home_centers[p], node_set)
       THEN "home centers must reference valid nodes"
       ELSE None

\* The maps a caller may pass: the node names, the ordered pairs of them, and
\* the lists of at most MaxEdges pairs, each list in the order of Pairs.
MapNames == <<"A", "B", "C">>
Pairs ==
    [i \in 1..(Len(MapNames) * Len(MapNames)) |->
        <<MapNames[((i - 1) \div Len(MapNames)) + 1], MapNames[((i - 1) % Len(MapNames)) + 1]>>]
EdgeLists ==
    UNION {{[j \in 1..n |-> Pairs[f[j]]] :
               f \in {g \in [1..n -> DOMAIN Pairs] : \A j \in 1..n : j < n => g[j] <= g[j + 1]}} :
           n \in 0..MaxEdges}
\* Lists of node names, with and without a repeated name.
NodeLists == UNION {[1..n -> Range(MapNames)] : n \in 0..Len(MapNames)}
\* Lists of at most one supply center.
CenterLists == {<<>>} \cup {<<n>> : n \in Range(MapNames)}
\* home_centers with no power, or with one power and one home or a pair of
\* homes.
HomeCenters ==
    {<<>>} \cup {Item("p1", Name(n)) : n \in Range(MapNames)}
           \cup {Item("p1", Group(<<Pairs[i][1], Pairs[i][2]>>)) :
                    i \in {j \in DOMAIN Pairs : Pairs[j][1] # Pairs[j][2]}}

MapDefs ==
    {triangle3, sample4} \cup
    {[name |-> "drawn", nodes |-> ns, edges |-> es, supply_centers |-> cs,
      home_centers |-> hs] :
        ns \in NodeLists, es \in EdgeLists, cs \in CenterLists, hs \in HomeCenters}

\* No adjudication is under way: an empty heap and no orders.
IdleBoard ==
    /\ objs = <<>>
    /\ tops = <<>>
    /\ inners = <<>>
    /\ centers = <<>>
    /\ state = 0
    /\ orders = <<>>
    /\ next_state = 0
    /\ again_orders = <<>>
    /\ again = 0
    /\ IdleLoop

InitMap ==
    /\ map_def \in MapDefs
    /\ power = None
    /\ error = None
    /\ orders_by_unit = <<>>
    /\ before = map_def
    /\ pc = "call"
    /\ IdleBoard
    /\ IdleTalk
    /\ IdleDeal
    /\ IdleGame

\* validate_map(map_def): it returns, or raises a ValueError.
Validate ==
    /\ pc = "call"
    /\ error' = validate_map(map_def)
    /\ pc' = IF validate_map(map_def) = None THEN "validated" ELSE "raised"
    /\ before' = map_def
    /\ UNCHANGED <<objs, tops, inners, centers, state, orders, next_state,
                   again_orders, again, loopVars, talkVars, dealVars, map_def, power,
                   orders_by_unit, gameVars>>

NextMap == Validate

SpecMap == InitMap /\ [][NextMap]_vars

\* --------------------------------------------------- orders.py: legal_orders
\* An order dataclass with its power and unit_id fields.
OrderOf(p, u, o) == [power |-> p, unit_id |-> u, order |-> o]

\* state.units[p][u] for every power and unit id of the state.
AllUnitsOf(o, t, i, s) ==
    LET top == t[o[s].units]
        keys == UNION {{<<p, u>> : u \in DOMAIN i[top[p]]} : p \in DOMAIN top}
    IN [k \in keys |-> i[top[k[1]]][k[2]]]

\* legal_orders, line 43, read by neighbors.get(node, []): the neighbours of a
\* node listed in map_def.nodes, and no neighbours for any other node.
NeighborsGet(m, node) ==
    IF node \in Range(m.nodes) THEN neighbors(m, node) ELSE <<>>

\* legal_orders, lines 47-48.
MovesOf(p, u, nbrs) == [j \in 1..Len(nbrs) |-> OrderOf(p, u, Move(nbrs[j]))]

\* legal_orders, lines 55-76, for one other unit sk standing on from_node.
SupportsOf(m, p, u, supporter_neighbors, sk, from_node) ==
    LET targets == SelectSeq(NeighborsGet(m, from_node),
                             LAMBDA to_node : to_node \in supporter_neighbors)
    IN (IF from_node \in supporter_neighbors
        THEN <<OrderOf(p, u, Support(sk, from_node, None))>> ELSE <<>>)
       \o [j \in 1..Len(targets) |-> OrderOf(p, u, Support(sk, from_node, targets[j]))]

\* legal_orders, lines 51-76: the units of the state in iteration order, the
\* unit itself skipped.
RECURSIVE SupportsOver(_, _, _, _, _, _)
SupportsOver(m, units, p, u, supporter_neighbors, ord) ==
    IF ord = <<>> THEN <<>>
    ELSE (IF Head(ord) = <<p, u>> THEN <<>>
          ELSE SupportsOf(m, p, u, supporter_neighbors, Head(ord), units[Head(ord)]))
         \o SupportsOver(m, units, p, u, supporter_neighbors, Tail(ord))

\* Mutant of unit_orders: the list does not start with a Hold.
unit_orders_without_hold(m, units, p, u, ord) ==
    MovesOf(p, u, NeighborsGet(m, units[<<p, u>>]))
    \o SupportsOver(m, units, p, u, Range(NeighborsGet(m, units[<<p, u>>])), ord)

\* legal_orders, lines 46-76: the list of one unit.
unit_orders(m, units, p, u, ord) ==
    <<OrderOf(p, u, Hold)>>
    \o MovesOf(p, u, NeighborsGet(m, units[<<p, u>>]))
    \o SupportsOver(m, units, p, u, Range(NeighborsGet(m, units[<<p, u>>])), ord)

\* legal_orders(state, map_def, power), the dicts of the state iterated as ord.
legal_orders(o, t, i, s, m, p, ord) ==
    IF p \notin DOMAIN t[o[s].units] THEN <<>>
    ELSE [u \in DOMAIN i[t[o[s].units][p]] |->
             unit_orders(m, AllUnitsOf(o, t, i, s), p, u, ord)]

\* maps/triangle3.py and maps/sample4.py: STARTING_UNITS.
triangle3_units ==
    [p \in {"A", "B", "C"} |->
        IF p = "A" THEN [u \in {"A1", "A2"} |-> u]
        ELSE IF p = "B" THEN [u \in {"B1", "B2"} |-> u] ELSE [u \in {"C1", "C2"} |-> u]]
sample4_units ==
    [p \in {"A", "B", "C", "D"} |->
        IF p = "A" THEN [u \in {"A1", "A2"} |-> u]
        ELSE IF p = "B" THEN [u \in {"B1", "B2"} |-> u]
        ELSE IF p = "C" THEN [u \in {"C1", "C2"} |-> u] ELSE [u \in {"D1", "D2"} |-> u]]

\* The units a caller may pass: some of the first units of AllKeys, each on a
\* node name of its own, and possibly a power that has no unit left.
UnitKeys == {AllKeys[j] : j \in 1..(Len(AllKeys) - 1)}
Nested(K, f, E) ==
    [p \in {k[1] : k \in K} \cup E |-> [u \in {k[2] : k \in {x \in K : x[1] = p}} |-> f[<<p, u>>]]]
UnitLayouts ==
    UNION {UNION {{Nested(K, f, E) : E \in SUBSET (Powers \ {k[1] : k \in K})} :
                     f \in {g \in [K -> Range(MapNames)] :
                               \A a, b \in K : a # b => g[a] # g[b]}} :
           K \in SUBSET UnitKeys}

\* The maps passed with them: every set of node names, listed in the order of
\* MapNames, and every list of EdgeLists.
PlainMaps ==
    {[name |-> "drawn", nodes |-> SelectSeq(MapNames, LAMBDA n : n \in N), edges |-> es,
      supply_centers |-> <<>>, home_centers |-> <<>>] :
        N \in SUBSET Range(MapNames), es \in EdgeLists}

\* The heap holding one GameState with the given units.
BoardOf(nested) ==
    LET ps == CHOOSE l \in [1..Cardinality(DOMAIN nested) -> DOMAIN nested] :
                  \A a, b \in DOMAIN l : a # b => l[a] # l[b]
    IN /\ objs = <<[units |-> 1, center_owner |-> 1, turn |-> 0]>>
       /\ tops = <<[q \in DOMAIN nested |-> CHOOSE j \in DOMAIN ps : ps[j] = q]>>
       /\ inners = [j \in DOMAIN ps |-> nested[ps[j]]]
       /\ centers = <<<<>>>>
       /\ state = 1

InitOrders ==
    /\ \/ /\ map_def \in PlainMaps
          /\ \E nested \in UnitLayouts : BoardOf(nested)
          /\ power \in Powers
       \/ /\ map_def = triangle3
          /\ BoardOf(triangle3_units)
          /\ power \in DOMAIN triangle3_units
       \/ /\ map_def = sample4
          /\ BoardOf(sample4_units)
          /\ power \in DOMAIN sample4_units
    /\ error = None
    /\ orders_by_unit = <<>>
    /\ before = map_def
    /\ pc = "call"
    /\ orders = <<>>
    /\ next_state = 0
    /\ again_orders = <<>>
    /\ again = 0
    /\ IdleLoop
    /\ IdleTalk
    /\ IdleDeal
    /\ IdleGame

\* orders_by_unit = legal_orders(state, map_def, power), with or without a
\* call of validate_map before it, or after a deal was made.
LegalOrders ==
    /\ pc \in {"call", "validated", "dealt"}
    /\ \E ord \in IterOrders(AllUnitsOf(objs, tops, inners, state)) :
          orders_by_unit' = legal_orders(objs, tops, inners, state, map_def, power, ord)
    /\ pc' = "listed"
    /\ UNCHANGED <<objs, tops, inners, centers, state, orders, before, next_state,
                   again_orders, again, loopVars, talkVars, dealVars, map_def, power,
                   error, gameVars>>

NextOrders == Validate \/ LegalOrders

SpecOrders == InitOrders /\ [][NextOrders]_vars

\* ---------------------------------------------------------- random_agent.py
\* Mutant of choice: the order is drawn from the lists of all the units.
choice_of_any_unit(p, u, legal) ==
    UNION {Range(legal[x]) : x \in DOMAIN legal}

\* select_orders, lines 30-33: what one unit may be given, self._rng.choice
\* of its list, or a Hold when the list is empty.
choice(p, u, legal) ==
    IF legal[u] # <<>> THEN Range(legal[u]) ELSE {OrderOf(p, u, Hold)}

\* RandomAgent.select_orders, lines 28-34, from orders_by_unit on: the dicts
\* it may return.
select_orders(p, legal) ==
    {selected_orders \in [{<<p, u>> : u \in DOMAIN legal} ->
                              UNION {choice(p, u, legal) : u \in DOMAIN legal}] :
        \A u \in DOMAIN legal : selected_orders[<<p, u>>] \in choice(p, u, legal)}

\* orders = RandomAgent(...).select_orders(state, map_def, power)
SelectOrders ==
    /\ pc = "call"
    /\ \E ord \in IterOrders(AllUnitsOf(objs, tops, inners, state)) :
          LET legal == legal_orders(objs, tops, inners, state, map_def, power, ord)
          IN /\ orders_by_unit' = legal
             /\ orders' \in select_orders(power, legal)
    /\ pc' = "selected"
    /\ UNCHANGED <<objs, tops, inners, centers, state, before, next_state, again_orders,
                   again, loopVars, talkVars, dealVars, map_def, power, error, gameVars>>

NextAgent == SelectOrders

SpecAgent == InitOrders /\ [][NextAgent]_vars

\* ---------------------------------------------------------------- deal.py
\* The powers that make deals: the powers of the board and one more.
DealPowers == Powers \cup {"p3"}

\* Violation(power, deal, unit_id, order, reason); the reason is kept without
\* its formatting.
Violation(p, d, u, o, reason) ==
    [power |-> p, deal |-> d, unit_id |-> u, order |-> o, reason |-> reason]

\* list(state.units.get(p, {}).values()), the units taken in the order of
\* AllKeys; only the set of its items is ever read.
PositionsOf(units, p) ==
    LET mine == SelectSeq(AllKeys, LAMBDA k : k \in DOMAIN units /\ k[1] = p)
    IN [n \in 1..Len(mine) |-> units[mine[n]]]

\* PeaceDeal.from_state(i, j, state)
from_state(i, j, units) ==
    [kind |-> "PeaceDeal", i |-> i, j |-> j,
     current_positions |-> [p \in {i, j} |-> PositionsOf(units, p)]]

\* The party of a deal between i and j that is not p.
Opponent(d, p) == IF p = d.i THEN d.j ELSE d.i

\* Mutant of PeaceDeal_allowed_orders: the Holds are removed as well.
PeaceDeal_allowed_orders_no_hold(d, p, legal) ==
    IF p \notin {d.i, d.j} THEN legal
    ELSE IF DOMAIN d.current_positions = {} THEN legal
    ELSE LET prohibited_nodes == Range(d.current_positions[Opponent(d, p)])
         IN IF prohibited_nodes = {} THEN legal
            ELSE [u \in DOMAIN legal |->
                     SelectSeq(legal[u],
                               LAMBDA o : ~(\/ o.order.kind = "Hold"
                                            \/ /\ o.order.kind = "Move"
                                               /\ o.order.to_node \in prohibited_nodes))]

\* PeaceDeal.allowed_orders
PeaceDeal_allowed_orders(d, p, legal) ==
    IF p \notin {d.i, d.j} THEN legal
    ELSE IF DOMAIN d.current_positions = {} THEN legal
    ELSE LET prohibited_nodes == Range(d.current_positions[Opponent(d, p)])
         IN IF prohibited_nodes = {} THEN legal
            ELSE [u \in DOMAIN legal |->
                     SelectSeq(legal[u],
                               LAMBDA o : ~(/\ o.order.kind = "Move"
                                            /\ o.order.to_node \in prohibited_nodes))]

\* PeaceDeal.violations, the submitted orders iterated as items.
PeaceDeal_violations(d, p, items, units) ==
    IF p \notin {d.i, d.j} THEN <<>>
    ELSE LET opponent_nodes == {units[k] : k \in {x \in DOMAIN units : x[1] = Opponent(d, p)}}
             broken == SelectSeq(items, LAMBDA it : /\ it[2].order.kind = "Move"
                                                    /\ it[2].order.to_node \in opponent_nodes)
         IN [n \in 1..Len(broken) |->
                Violation(p, d, broken[n][1], broken[n][2],
                          <<"PeaceDeal prohibits entering", Opponent(d, p)>>)]

\* SupportDeal(i, j, supported_unit, from_node, to_node, supporter_unit); a
\* UnitRef is written as the pair of its power and unit_id.
SupportDeal(i, j, supported_unit, from_node, to_node, supporter_unit) ==
    [kind |-> "SupportDeal", i |-> i, j |-> j, supported_unit |-> supported_unit,
     from_node |-> from_node, to_node |-> to_node, supporter_unit |-> supporter_unit]

\* Mutant of _is_required_support: the destination of the support is not read.
_is_required_support_any_target(d, o) ==
    /\ o.order.kind = "Support"
    /\ o.order.supported = d.supported_unit
    /\ o.order.from_node = d.from_node

\* SupportDeal._is_required_support
_is_required_support(d, o) ==
    /\ o.order.kind = "Support"
    /\ o.order.supported = d.supported_unit
    /\ o.order.from_node = d.from_node
    /\ o.order.to_node = d.to_node

\* Mutant of SupportDeal_allowed_orders: no list is restricted.
SupportDeal_allowed_orders_unrestricted(d, p, legal) == legal

\* SupportDeal.allowed_orders
SupportDeal_allowed_orders(d, p, legal) ==
    IF p # d.supporter_unit[1] THEN legal
    ELSE [u \in DOMAIN legal |->
             IF u # d.supporter_unit[2] THEN legal[u]
             ELSE SelectSeq(legal[u], LAMBDA o : _is_required_support(d, o))]

\* No order: what submitted_orders.get gives for a unit without an order.
\* It is no Hold, Move or Support.
NoOrder == [power |-> None, unit_id |-> None, order |-> [kind |-> None]]

\* SupportDeal.violations
SupportDeal_violations(d, p, items, units) ==
    IF p # d.supporter_unit[1] THEN <<>>
    ELSE IF d.supporter_unit \notin DOMAIN units THEN <<>>
    ELSE LET mine == SelectSeq(items, LAMBDA it : it[1] = d.supporter_unit[2])
             order == IF mine = <<>> THEN NoOrder ELSE mine[1][2]
         IN IF order # NoOrder /\ _is_required_support(d, order) THEN <<>>
            ELSE <<Violation(p, d, d.supporter_unit[2], order,
                             <<"SupportDeal requires a support-move order">>)>>

\* NoEnterDeal(i, j, node)
NoEnterDeal(i, j, node) == [kind |-> "NoEnterDeal", i |-> i, j |-> j, node |-> node]

\* Mutant of NoEnterDeal_allowed_orders: only the deal's first party is bound.
NoEnterDeal_allowed_orders_first_party(d, p, legal) ==
    IF p # d.i THEN legal
    ELSE [u \in DOMAIN legal |->
             SelectSeq(legal[u],
                       LAMBDA o : ~(o.order.kind = "Move" /\ o.order.to_node = d.node))]

\* NoEnterDeal.allowed_orders
NoEnterDeal_allowed_orders(d, p, legal) ==
    IF p \notin {d.i, d.j} THEN legal
    ELSE [u \in DOMAIN legal |->
             SelectSeq(legal[u],
                       LAMBDA o : ~(o.order.kind = "Move" /\ o.order.to_node = d.node))]

\* NoEnterDeal.violations
NoEnterDeal_violations(d, p, items, units) ==
    IF p \notin {d.i, d.j} THEN <<>>
    ELSE LET broken == SelectSeq(items, LAMBDA it : /\ it[2].order.kind = "Move"
                                                    /\ it[2].order.to_node = d.node)
         IN [n \in 1..Len(broken) |->
                Violation(p, d, broken[n][1], broken[n][2],
                          <<"NoEnterDeal prohibits entering", d.node>>)]

\* deal.allowed_orders(power, legal_orders), by the class of the deal.
allowed_orders(d, p, legal) ==
    CASE d.kind = "PeaceDeal" -> PeaceDeal_allowed_orders(d, p, legal)
      [] d.kind = "SupportDeal" -> SupportDeal_allowed_orders(d, p, legal)
      [] d.kind = "NoEnterDeal" -> NoEnterDeal_allowed_orders(d, p, legal)

\* deal.violations(power, submitted_orders, state), by the class of the deal.
violations(d, p, items, units) ==
    CASE d.kind = "PeaceDeal" -> PeaceDeal_violations(d, p, items, units)
      [] d.kind = "SupportDeal" -> SupportDeal_violations(d, p, items, units)
      [] d.kind = "NoEnterDeal" -> NoEnterDeal_violations(d, p, items, units)

\* The maps the deals are used on: the maps of PlainMaps that list every node
\* name, that validate_map accepts, and that have no edge from a node to
\* itself.
DealMaps ==
    {m \in PlainMaps :
        /\ Range(m.nodes) = Range(MapNames)
        /\ validate_map(m) = None
        /\ \A n \in DOMAIN m.edges : m.edges[n][1] # m.edges[n][2]}

\* A board, a map and a power, and no deal yet.
InitDealsOn(maps) ==
    /\ map_def \in maps
    /\ \E nested \in UnitLayouts : BoardOf(nested)
    /\ power \in Powers
    /\ error = None
    /\ orders_by_unit = <<>>
    /\ before = <<>>
    /\ pc = "call"
    /\ orders = <<>>
    /\ next_state = 0
    /\ again_orders = <<>>
    /\ again = 0
    /\ IdleLoop
    /\ IdleTalk
    /\ IdleDeal
    /\ IdleGame

InitDeals == InitDealsOn(DealMaps)

\* A deal was made from the state; before is the state it was made from.
Dealt(d) ==
    /\ pc = "call"
    /\ deal' = d
    /\ before' = AllUnitsOf(objs, tops, inners, state)
    /\ pc' = "dealt"
    /\ UNCHANGED <<objs, tops, inners, centers, state, orders, next_state, again_orders,
                   again, loopVars, mapVars, talkVars, allowed, submitted, found, gameVars, active_deals>>

\* deal = PeaceDeal.from_state(i, j, state)
MakePeaceDeal ==
    \E i, j \in DealPowers :
        i # j /\ Dealt(from_state(i, j, AllUnitsOf(objs, tops, inners, state)))

\* deal = SupportDeal(i, j, supported_unit, from_node, to_node, supporter_unit),
\* i the power of the supported unit and j the power of the supporter.
MakeSupportDeal ==
    \E supported_unit, supporter_unit \in UnitKeys :
        \E from_node, to_node \in Range(MapNames) :
            /\ supported_unit # supporter_unit
            /\ Dealt(SupportDeal(supported_unit[1], supporter_unit[1], supported_unit,
                                 from_node, to_node, supporter_unit))

\* deal = NoEnterDeal(i, j, node)
MakeNoEnterDeal ==
    \E i, j \in DealPowers, node \in Range(MapNames) :
        i # j /\ Dealt(NoEnterDeal(i, j, node))

\* state.units[p][u] = node, once, after the deal was made: a unit goes to a
\* node that no unit stands on.
UnitMoves ==
    /\ pc = "dealt"
    /\ AllUnitsOf(objs, tops, inners, state) = before
    /\ \E k \in DOMAIN before, node \in Range(map_def.nodes) :
          /\ \A x \in DOMAIN before : before[x] # node
          /\ inners' = [inners EXCEPT ![tops[objs[state].units][k[1]]][k[2]] = node]
    /\ UNCHANGED <<objs, tops, centers, state, orders, pc, before, next_state,
                   again_orders, again, loopVars, mapVars, talkVars, dealVars, gameVars>>

\* allowed = deal.allowed_orders(power, orders_by_unit)
AllowedOrders ==
    /\ pc = "listed"
    /\ deal.kind # None
    /\ allowed' = allowed_orders(deal, power, orders_by_unit)
    /\ pc' = "allowed"
    /\ UNCHANGED <<objs, tops, inners, centers, state, orders, before, next_state,
                   again_orders, again, loopVars, mapVars, talkVars, deal, submitted,
                   found, gameVars, active_deals>>

\* The lists of items a dict with the given keys can be iterated as.
ItemsOf(d) ==
    {items \in [1..Cardinality(DOMAIN d) -> {<<u, d[u]>> : u \in DOMAIN d}] :
        \A a, b \in DOMAIN items : a # b => items[a] # items[b]}

\* found = deal.violations(power, submitted, state), for submitted orders that
\* give some of the power's units one of their legal orders each.
Violations ==
    /\ pc = "allowed"
    /\ \E U \in SUBSET DOMAIN orders_by_unit :
          \E n \in [U -> UNION {DOMAIN orders_by_unit[u] : u \in U}] :
             /\ \A u \in U : n[u] \in DOMAIN orders_by_unit[u]
             /\ submitted' = [u \in U |-> orders_by_unit[u][n[u]]]
             /\ \E items \in ItemsOf([u \in U |-> orders_by_unit[u][n[u]]]) :
                   found' = violations(deal, power, items,
                                       AllUnitsOf(objs, tops, inners, state))
    /\ pc' = "judged"
    /\ UNCHANGED <<objs, tops, inners, centers, state, orders, before, next_state,
                   again_orders, again, loopVars, mapVars, talkVars, deal, allowed, gameVars, active_deals>>

\* found = deal.violations(power, submitted, state), for submitted orders that
\* give every unit of the power an order of its allowed list, no list being
\* empty, in the state the deal was made from.
Comply ==
    /\ pc = "allowed"
    /\ \A u \in DOMAIN allowed : allowed[u] # <<>>
    /\ \E n \in [DOMAIN allowed -> UNION {DOMAIN allowed[u] : u \in DOMAIN allowed}] :
          /\ \A u \in DOMAIN allowed : n[u] \in DOMAIN allowed[u]
          /\ submitted' = [u \in DOMAIN allowed |-> allowed[u][n[u]]]
          /\ \E items \in ItemsOf([u \in DOMAIN allowed |-> allowed[u][n[u]]]) :
                found' = violations(deal, power, items,
                                    AllUnitsOf(objs, tops, inners, state))
    /\ pc' = "complied"
    /\ UNCHANGED <<objs, tops, inners, centers, state, orders, before, next_state,
                   again_orders, again, loopVars, mapVars, talkVars, deal, allowed, gameVars, active_deals>>

NextComply ==
    \/ MakePeaceDeal
    \/ MakeSupportDeal
    \/ MakeNoEnterDeal
    \/ LegalOrders
    \/ AllowedOrders
    \/ Comply
SpecComply == InitDeals /\ [][NextComply]_vars

NextPeace == MakePeaceDeal \/ UnitMoves \/ LegalOrders \/ AllowedOrders \/ Violations
SpecPeace == InitDeals /\ [][NextPeace]_vars

NextSupport == MakeSupportDeal \/ LegalOrders \/ AllowedOrders \/ Violations
SpecSupport == InitDeals /\ [][NextSupport]_vars

NextNoEnter == MakeNoEnterDeal \/ LegalOrders \/ AllowedOrders \/ Violations
SpecNoEnter == InitDeals /\ [][NextNoEnter]_vars

\* game.py, lines 195-201: the map of the module's own run.
mini ==
    [name |-> "mini", nodes |-> <<"A", "B", "C">>,
     edges |-> << <<"A", "B">>, <<"B", "C">> >>,
     supply_centers |-> <<"A", "B", "C">>,
     home_centers |-> [p \in {"p1", "p2"} |-> Name(IF p = "p1" THEN "A" ELSE "C")]]

\* The maps a Game is made with: mini, and a ring over its nodes in which B is
\* no supply center.  validate_map accepts both.
GameMaps ==
    {mini,
     [name |-> "ring", nodes |-> <<"A", "B", "C">>,
      edges |-> << <<"A", "B">>, <<"B", "C">>, <<"A", "C">> >>,
      supply_centers |-> <<"A", "C">>,
      home_centers |-> [p \in {"p1", "p2"} |-> Name(IF p = "p1" THEN "A" ELSE "C")]]}

\* The dicts that give every key of keys one of its options.
RECURSIVE Selections(_, _)
Selections(options, keys) ==
    IF keys = {} THEN {<<>>}
    ELSE LET k == CHOOSE x \in keys : TRUE
         IN {[x \in DOMAIN rest \cup {k} |-> IF x = k THEN o ELSE rest[x]] :
                rest \in Selections(options, keys \ {k}), o \in options[k]}

\* ------------------------------------------------- negotiator_baseline.py
\* The most deals an agent is given as active.
MaxDeals == 2

\* _node_values: for every node of map_def.nodes the number of edge ends on it,
\* plus 2 for a supply center.
_node_values(m) ==
    [n \in Range(m.nodes) |->
        Cardinality({i \in DOMAIN m.edges : m.edges[i][1] = n})
        + Cardinality({i \in DOMAIN m.edges : m.edges[i][2] = n})
        + (IF n \in Range(m.supply_centers) THEN 2 ELSE 0)]

\* _unit_occupancy: the power of the last unit, in iteration order, that
\* stands on the node; None stands for a node that is no key of the dict.
_unit_occupancy(units, ord) ==
    [n \in Nodes |->
        LET here == SelectSeq(ord, LAMBDA k : units[k] = n)
        IN IF here = <<>> THEN None ELSE here[Len(here)][1]]

\* _supply_center_owners: the owner of every supply center of the map, and
\* the power of a unit standing on it when it has none.
_supply_center_owners(center_owner, units, ord, m) ==
    [c \in Range(m.supply_centers) |->
        IF c \in DOMAIN center_owner /\ center_owner[c] # None THEN center_owner[c]
        ELSE _unit_occupancy(units, ord)[c]]

\* node_values.get(node, 0.0)
ValueAt(m, node) == IF node \in DOMAIN _node_values(m) THEN _node_values(m)[node] ELSE 0

\* _order_score, in hundredths: the score of an order of a unit of power p.
_order_score(center_owner, units, ord, m, p, o) ==
    LET center_owners == _supply_center_owners(center_owner, units, ord, m)
        occupant == _unit_occupancy(units, ord)
    IN CASE o.order.kind = "Move" ->
              100 * ValueAt(m, o.order.to_node)
              + (IF occupant[o.order.to_node] = None THEN 40
                 ELSE IF occupant[o.order.to_node] = p THEN 0 - 120 ELSE 80)
              + (IF o.order.to_node \notin DOMAIN center_owners THEN 0
                 ELSE IF center_owners[o.order.to_node] = None THEN 120
                 ELSE IF center_owners[o.order.to_node] # p THEN 150 ELSE 0)
              + 10
         [] o.order.kind = "Hold" -> 35 * ValueAt(m, units[<<p, o.unit_id>>])
         [] o.order.kind = "Support" ->
              20 * ValueAt(m, IF o.order.to_node # None THEN o.order.to_node
                              ELSE o.order.from_node)
              + (IF o.order.supported[1] = p THEN 30 ELSE 0 - 20)

\* max(unit_orders, key=...): an order of the list that no order of the list
\* outscores.  The scores are floats in the code; which of several orders whose
\* scores are equal in exact arithmetic it returns depends on their rounding
\* and on the order of the list, and each of them is taken here.
best_order(candidates, score) ==
    {candidates[j] : j \in {x \in DOMAIN candidates :
                              \A y \in DOMAIN candidates : score[y] <= score[x]}}

\* _apply_deal_restrictions, lines 260-262: allowed_orders of every deal in
\* turn, each on what the deal before it left.
RECURSIVE RestrictedBy(_, _, _)
RestrictedBy(p, legal, deals) ==
    IF deals = <<>> THEN legal
    ELSE RestrictedBy(p, allowed_orders(Head(deals), p, legal), Tail(deals))

\* _apply_deal_restrictions: None when the deals leave some unit no order.
_apply_deal_restrictions(p, legal, deals) ==
    IF \E u \in DOMAIN RestrictedBy(p, legal, deals) : RestrictedBy(p, legal, deals)[u] = <<>>
    THEN [none |-> TRUE, orders |-> <<>>]
    ELSE [none |-> FALSE, orders |-> RestrictedBy(p, legal, deals)]

\* select_orders, lines 53-55: the lists the orders are chosen from.
restricted(p, legal, deals) ==
    IF _apply_deal_restrictions(p, legal, deals).none THEN legal
    ELSE _apply_deal_restrictions(p, legal, deals).orders

\* BaselineNegotiatorAgent.select_orders, from orders_by_unit on: the dicts it
\* may return.
BaselineNegotiatorAgent_select_orders(center_owner, units, ord, m, p, legal, deals) ==
    Selections([k \in {<<p, u>> : u \in DOMAIN legal} |->
                   IF restricted(p, legal, deals)[k[2]] = <<>> THEN {OrderOf(p, k[2], Hold)}
                   ELSE best_order(restricted(p, legal, deals)[k[2]],
                                   [j \in DOMAIN restricted(p, legal, deals)[k[2]] |->
                                       _order_score(center_owner, units, ord, m, p,
                                                    restricted(p, legal, deals)[k[2]][j])])],
               {<<p, u>> : u \in DOMAIN legal})

\* _support_deals: the deals it builds from the legal Support orders of the
\* proposer's units for a move of a unit of the target; it returns a sample.
_support_deals(p, target, legal) ==
    UNION {{SupportDeal(p, target, legal[u][j].order.supported, legal[u][j].order.from_node,
                        legal[u][j].order.to_node, <<p, u>>) :
               j \in {x \in DOMAIN legal[u] : /\ legal[u][x].order.kind = "Support"
                                               /\ legal[u][x].order.supported[1] = target
                                               /\ legal[u][x].order.to_node # None}} :
           u \in DOMAIN legal}

\* _candidate_deals: the deals one power may propose to another: the peace
\* deal of the state, a no-enter deal for a node it protects, and the deals
\* of _support_deals.
_candidate_deals(center_owner, units, ord, m, p, target, legal) ==
    {from_state(p, target, units)}
    \cup {NoEnterDeal(p, target, node) :
             node \in {units[k] : k \in {x \in DOMAIN units : x[1] = p}}
                      \cup {c \in Range(m.supply_centers) :
                               _supply_center_owners(center_owner, units, ord, m)[c] = p}}
    \cup _support_deals(p, target, legal)

\* The deals that may be active for a power: what it may have proposed to
\* another power of the board, and what that power may have proposed to it.
DealsFor(center_owner, units, ord, m, p, legal) ==
    UNION {_candidate_deals(center_owner, units, ord, m, p, q, legal[p])
           \cup _candidate_deals(center_owner, units, ord, m, q, p, legal[q]) :
              q \in Powers \ {p}}

\* agent.set_active_deals(deals): at most MaxDeals deals, made in the state
\* that the orders are then selected in.
SetActiveDeals ==
    /\ pc = "call"
    /\ \E ord \in IterOrders(AllUnitsOf(objs, tops, inners, state)) :
          \E n \in 1..MaxDeals :
             active_deals' \in
                [1..n -> DealsFor(centers[objs[state].center_owner],
                                  AllUnitsOf(objs, tops, inners, state), ord, map_def, power,
                                  [q \in Powers |->
                                      legal_orders(objs, tops, inners, state,
                                                   map_def, q, ord)])]
    /\ before' = AllUnitsOf(objs, tops, inners, state)
    /\ pc' = "active"
    /\ UNCHANGED <<objs, tops, inners, centers, state, orders, next_state, again_orders,
                   again, loopVars, mapVars, talkVars, deal, allowed, submitted, found,
                   gameVars>>

\* orders = agent.select_orders(state, map_def, power)
NegotiatorSelects ==
    /\ pc = "active"
    /\ \E ord \in IterOrders(AllUnitsOf(objs, tops, inners, state)) :
          LET legal == legal_orders(objs, tops, inners, state, map_def, power, ord)
          IN /\ orders_by_unit' = legal
             /\ allowed' = restricted(power, legal, active_deals)
             /\ orders' \in BaselineNegotiatorAgent_select_orders(
                                centers[objs[state].center_owner],
                                AllUnitsOf(objs, tops, inners, state), ord, map_def, power,
                                legal, active_deals)
    /\ pc' = "chosen"
    /\ UNCHANGED <<objs, tops, inners, centers, state, before, next_state, again_orders,
                   again, loopVars, talkVars, map_def, power, error, deal, submitted, found,
                   active_deals, gameVars>>

\* deal.violations(power, submitted_orders, state) for every active deal, the
\* selected orders submitted under their unit ids.
CheckDeals ==
    /\ pc = "chosen"
    /\ LET by_unit == [u \in {k[2] : k \in DOMAIN orders} |-> orders[<<power, u>>]]
       IN /\ submitted' = by_unit
          /\ \E items \in ItemsOf(by_unit) :
                found' = [j \in DOMAIN active_deals |->
                             violations(active_deals[j], power, items,
                                        AllUnitsOf(objs, tops, inners, state))]
    /\ pc' = "checked"
    /\ UNCHANGED <<objs, tops, inners, centers, state, orders, before, next_state,
                   again_orders, again, loopVars, mapVars, talkVars, deal, allowed,
                   active_deals, gameVars>>

\* The boards of the deals, on their maps and on the maps of game.py.
InitNegotiator == InitDealsOn(DealMaps \cup GameMaps)
NextNegotiator == SetActiveDeals \/ NegotiatorSelects \/ CheckDeals
SpecNegotiator == InitNegotiator /\ [][NextNegotiator]_vars

\* ------------------------------------------------------------ protocol.py
\* test_protocol.py: the powers, and the deal a participant proposes, which
\* names its proposer and its target.
TalkPowers == <<"A", "B", "C">>
DummyDeal(proposer, target) == [kind |-> "DummyDeal", label |-> <<proposer, target>>]

\* What a proposer and a responder do when run_turn asks them: propose_deal
\* returns None, written NoDeal, or a deal, and accept_deal returns True or
\* False.
Answer(proposer, responder, what) ==
    IF what = "skip" THEN [deal |-> NoDeal, accept |-> FALSE]
    ELSE [deal |-> DummyDeal(proposer, responder), accept |-> (what = "accept")]

\* The NegotiationProtocol object.
Self == [participants |-> participants, accepted_deals_by_power |-> accepted_deals_by_power]

\* Mutant of Answered: an accepted deal is recorded for the proposer only.
AnsweredForProposer(self, rep, acc, proposer, responder) ==
    IF proposer = responder \/ responder \notin Range(self.participants) THEN acc
    ELSE LET answer == rep[<<proposer, responder>>]
         IN IF answer.deal = NoDeal THEN acc
            ELSE IF answer.accept
                 THEN [acc EXCEPT ![proposer] = Append(@, answer.deal)]
                 ELSE acc

\* run_turn, lines 42-52: one responder of one proposer.
Answered(self, rep, acc, proposer, responder) ==
    IF proposer = responder \/ responder \notin Range(self.participants) THEN acc
    ELSE LET answer == rep[<<proposer, responder>>]
         IN IF answer.deal = NoDeal THEN acc
            ELSE IF answer.accept
                 THEN [acc EXCEPT ![proposer] = Append(@, answer.deal),
                                  ![responder] = Append(@, answer.deal)]
                 ELSE acc

\* run_turn, lines 41-52: the responders of one proposer, in order.
RECURSIVE OverResponders(_, _, _, _, _)
OverResponders(self, rep, acc, proposer, responders) ==
    IF responders = <<>> THEN acc
    ELSE OverResponders(self, rep, Answered(self, rep, acc, proposer, Head(responders)),
                        proposer, Tail(responders))

\* run_turn, lines 37-52: the proposers, in order.
RECURSIVE OverProposers(_, _, _, _, _)
OverProposers(self, rep, acc, proposers, ordered_powers) ==
    IF proposers = <<>> THEN acc
    ELSE OverProposers(self, rep,
                       IF Head(proposers) \notin Range(self.participants) THEN acc
                       ELSE OverResponders(self, rep, acc, Head(proposers), ordered_powers),
                       Tail(proposers), ordered_powers)

\* run_turn, line 35.
ordered_powers(self, pw) == IF pw.given THEN pw.list ELSE self.participants

\* The calls run_turn makes on a participant: propose_deal(state, power,
\* target) and accept_deal(state, power, proposer, deal).
propose_deal(p, target) == [method |-> "propose_deal", power |-> p, other |-> target, deal |-> NoDeal]
accept_deal(p, proposer, d) == [method |-> "accept_deal", power |-> p, other |-> proposer, deal |-> d]

\* Mutant of CallsOf: the responder is asked whether or not a deal was
\* proposed.
CallsOfAskingAlways(self, rep, proposer, responder) ==
    IF proposer = responder \/ responder \notin Range(self.participants) THEN <<>>
    ELSE <<propose_deal(proposer, responder),
           accept_deal(responder, proposer, rep[<<proposer, responder>>].deal)>>

\* run_turn, lines 42-50: the calls made for one responder of one proposer.
CallsOf(self, rep, proposer, responder) ==
    IF proposer = responder \/ responder \notin Range(self.participants) THEN <<>>
    ELSE <<propose_deal(proposer, responder)>>
         \o (IF rep[<<proposer, responder>>].deal = NoDeal THEN <<>>
             ELSE <<accept_deal(responder, proposer, rep[<<proposer, responder>>].deal)>>)

\* run_turn, lines 37-50: the calls of a turn, proposer by proposer and
\* responder by responder.
RECURSIVE CallsOfProposer(_, _, _, _)
CallsOfProposer(self, rep, proposer, responders) ==
    IF responders = <<>> THEN <<>>
    ELSE CallsOf(self, rep, proposer, Head(responders))
         \o CallsOfProposer(self, rep, proposer, Tail(responders))
RECURSIVE CallsFrom(_, _, _, _)
CallsFrom(self, rep, proposers, ordered) ==
    IF proposers = <<>> THEN <<>>
    ELSE (IF Head(proposers) \notin Range(self.participants) THEN <<>>
          ELSE CallsOfProposer(self, rep, Head(proposers), ordered))
         \o CallsFrom(self, rep, Tail(proposers), ordered)
CallsOver(self, rep, ordered) == CallsFrom(self, rep, ordered, ordered)

\* Mutant of run_turn: the lists of the object are carried into the turn.
run_turn_carrying(self, rep, pw) ==
    OverProposers(self, rep,
                  [p \in Range(ordered_powers(self, pw)) |->
                      IF p \in DOMAIN self.accepted_deals_by_power
                      THEN self.accepted_deals_by_power[p] ELSE <<>>],
                  ordered_powers(self, pw), ordered_powers(self, pw))

\* run_turn: the accepted mapping it builds, stores and returns, when the
\* participants answer as rep.
run_turn(self, rep, pw) ==
    OverProposers(self, rep, [p \in Range(ordered_powers(self, pw)) |-> <<>>],
                  ordered_powers(self, pw), ordered_powers(self, pw))

\* accepted_deals
accepted_deals(self, p) ==
    IF p \in DOMAIN self.accepted_deals_by_power
    THEN self.accepted_deals_by_power[p] ELSE <<>>

\* expire_deals: the new value of accepted_deals_by_power.
expire_deals(self) == [p \in Range(self.participants) |-> <<>>]

\* Lists of powers without a repeated power.
PowerLists ==
    UNION {{l \in [1..n -> Range(TalkPowers)] : \A a, b \in 1..n : a # b => l[a] # l[b]} :
           n \in 0..Len(TalkPowers)}

\* The pairs run_turn asks about: proposer and responder both in ordered_powers
\* and both participants.
Asked(self, pw) ==
    {pair \in (Range(ordered_powers(self, pw)) \cap Range(self.participants))
              \X (Range(ordered_powers(self, pw)) \cap Range(self.participants)) :
        pair[1] # pair[2]}

\* A NegotiationProtocol over the given participants, its
\* accepted_deals_by_power the empty dict of the default factory.
InitProtocolWith(lists) ==
    /\ participants \in lists
    /\ accepted_deals_by_power = <<>>
    /\ powers = NoPowers
    /\ replies = <<>>
    /\ accepted = <<>>
    /\ calls = <<>>
    /\ before = <<>>
    /\ pc = "made"
    /\ IdleBoard
    /\ IdleDeal
    /\ IdleGame
    /\ IdleMap

InitProtocol == InitProtocolWith(PowerLists)

\* The effect of accepted = protocol.run_turn(state, powers).
RunsTurn ==
    /\ \E pw \in {NoPowers} \cup {Given(l) : l \in PowerLists} :
          /\ powers' = pw
          /\ \E what \in [Asked(Self, pw) -> {"skip", "decline", "accept"}] :
                LET rep == [pair \in Asked(Self, pw) |-> Answer(pair[1], pair[2], what[pair])]
                IN /\ replies' = rep
                   /\ accepted' = run_turn(Self, rep, pw)
                   /\ calls' = CallsOver(Self, rep, ordered_powers(Self, pw))
                   /\ accepted_deals_by_power' = run_turn(Self, rep, pw)
    /\ before' = accepted_deals_by_power
    /\ UNCHANGED <<objs, tops, inners, centers, state, orders, next_state,
                   again_orders, again, loopVars, mapVars, dealVars, participants, gameVars>>

\* The first run_turn of the protocol.
RunTurn == pc = "made" /\ pc' = "ran" /\ RunsTurn

\* A later run_turn, with or without expire_deals before it.
RunTurnAgain == pc \in {"ran", "expired"} /\ pc' = "ran again" /\ RunsTurn

\* protocol.expire_deals()
ExpireDeals ==
    /\ pc \in {"ran", "ran again"}
    /\ accepted_deals_by_power' = expire_deals(Self)
    /\ pc' = IF pc = "ran" THEN "expired" ELSE "expired again"
    /\ UNCHANGED <<objs, tops, inners, centers, state, orders, before, next_state,
                   again_orders, again, loopVars, mapVars, dealVars, participants,
                   powers, replies, accepted, calls, gameVars>>

NextProtocol == RunTurn \/ ExpireDeals

SpecProtocol == InitProtocol /\ [][NextProtocol]_vars

\* Protocols of at most two participants, followed over two turns.
InitTurns == InitProtocolWith({l \in PowerLists : Len(l) <= 2})
NextTurns == RunTurn \/ RunTurnAgain \/ ExpireDeals
SpecTurns == InitTurns /\ [][NextTurns]_vars

\* ------------------------------------------------------------------ game.py
\* The most rounds one run plays: the largest max_turns a Game is made with.
MaxRounds == 2

\* GameResult(winner, draw, centers, turn, reason)
GameResult(winner, draw, counts, turn, reason) ==
    [winner |-> winner, draw |-> draw, centers |-> counts, turn |-> turn, reason |-> reason]

\* _unit_owner_at_node: the power of the first unit, in iteration order, that
\* stands on the node, or None.
_unit_owner_at_node(units, ord, node) ==
    IF _unit_at_node(units, ord, node) = NoKey THEN None
    ELSE _unit_at_node(units, ord, node)[1]

\* What _capture_centers may see on the supply centers of the map: the owner
\* that _unit_owner_at_node returns for each of them, over the orders in which
\* the units of the state may be iterated.
OwnersSeen(units, m) ==
    {[c \in Range(m.supply_centers) |-> _unit_owner_at_node(units, ord, c)] :
        ord \in IterOrders(units)}

\* Mutant of Captured: a supply center that no unit stands on is given the
\* owner None.
CapturedOrCleared(center_owner, seen) ==
    [c \in DOMAIN center_owner \cup DOMAIN seen |->
        IF c \in DOMAIN seen THEN seen[c] ELSE center_owner[c]]

\* _capture_centers, lines 92-95, on the center_owner dict of the clone; seen
\* is the owner found on every supply center.
Captured(center_owner, seen) ==
    [c \in DOMAIN center_owner \cup {x \in DOMAIN seen : seen[x] # None} |->
        IF c \in DOMAIN seen /\ seen[c] # None THEN seen[c] ELSE center_owner[c]]

\* _capture_centers: the clone of the state, its center_owner dict written.
_capture_centers(h, s, seen) ==
    LET h1 == clone(h, s)
        c == h1.objs[h1.ret].center_owner
    IN [objs |-> h1.objs, tops |-> h1.tops, inners |-> h1.inners,
        centers |-> [h1.centers EXCEPT ![c] = Captured(@, seen)],
        ret |-> h1.ret]

\* _eliminate_powers, lines 100-102: the powers of the state that have no unit.
eliminated_powers(h, s) ==
    {p \in DOMAIN h.tops[h.objs[s].units] : DOMAIN h.inners[h.tops[h.objs[s].units][p]] = {}}

\* Mutant of _eliminate_powers: the powers without a unit are not deleted from
\* the units of the clone.
_eliminate_powers_keeping(h, s) == clone(h, s)

\* _eliminate_powers: the clone of the state with the powers that have no unit
\* deleted; self.eliminated is updated by the caller of this operator.
_eliminate_powers(h, s) ==
    LET h1 == clone(h, s)
        top == h1.objs[h1.ret].units
    IN [objs |-> h1.objs,
        tops |-> [h1.tops EXCEPT
                     ![top] = [p \in DOMAIN @ \ eliminated_powers(h, s) |-> @[p]]],
        inners |-> h1.inners, centers |-> h1.centers, ret |-> h1.ret]

\* The heap that holds the GameState at s and nothing else: the objects that
\* the Game no longer refers to are dropped.
Collected(h, s) ==
    LET v == ValueOf(h.objs, h.tops, h.inners, h.centers, s)
        P == DOMAIN v.units
    IN [objs |-> <<[units |-> 1, center_owner |-> 1, turn |-> v.turn]>>,
        tops |-> <<[p \in P |-> Rank(p, P)]>>,
        inners |-> [j \in 1..Cardinality(P) |-> v.units[PowerAt(j, P)]],
        centers |-> <<v.center_owner>>,
        ret |-> 1]

\* Game.step, lines 70-72, on the heap that the call before returned its
\* state in.
CaptureIn(r, seen) == _capture_centers(r, r.ret, seen)
EliminateIn(r) == _eliminate_powers(r, r.ret)
EliminatedIn(r) == eliminated_powers(r, r.ret)

\* Game.step, line 73: replace(next_state, turn=...).
Turned(r, turn) ==
    [objs |-> [r.objs EXCEPT ![r.ret].turn = turn],
     tops |-> r.tops, inners |-> r.inners, centers |-> r.centers, ret |-> r.ret]

\* Mutant of step: next_state keeps the turn of the adjudicated state.
step_same_turn(h, s, ords, res, seen) ==
    EliminateIn(CaptureIn(adjudicate_orders(h, s, ords, res), seen))

\* Game.step: adjudicate_orders, _capture_centers, _eliminate_powers, and the
\* turn of self.state plus 1.  res is the resolution of the orders and seen
\* the owners that _capture_centers finds on the supply centers.
step(h, s, ords, res, seen) ==
    Turned(EliminateIn(CaptureIn(adjudicate_orders(h, s, ords, res), seen)),
           h.objs[s].turn + 1)

\* self.eliminated after the step: the powers of the adjudicated state that
\* have no unit are added.
eliminated_after(h, s, ords, res, elim) ==
    elim \cup EliminatedIn(adjudicate_orders(h, s, ords, res))

\* The same, of the state a call returned.
CollectedIn(r) == Collected(r, r.ret)
OwnersSeenIn(r, m) == OwnersSeen(UnitsOf(r.objs, r.tops, r.inners, r.ret), m)

\* Mutant of OptionsOf: a unit may also be sent to any node name.
OptionsOfAnyNode(legal, u) ==
    {legal[u][j].order : j \in DOMAIN legal[u]} \cup {Move(n) : n \in Nodes}

\* _select_orders, lines 81-87: what one unit may be given, rng.choice of its
\* sorted list, or a Hold when the list is empty.
OptionsOf(legal, u) ==
    IF legal[u] = <<>> THEN {Hold} ELSE {legal[u][j].order : j \in DOMAIN legal[u]}

\* Game._select_orders: the dicts it may return, one order for every unit of
\* every power of the state that is not in self.eliminated.
_select_orders(h, s, m, elim, ord) ==
    LET units == UnitsOf(h.objs, h.tops, h.inners, s)
        keys == {k \in DOMAIN units : k[1] \notin elim}
    IN Selections([k \in keys |->
                      OptionsOf(legal_orders(h.objs, h.tops, h.inners, s, m, k[1], ord), k[2])],
                  keys)

\* What one round may leave: the heap after step, holding the new state only,
\* and self.eliminated, over the resolutions of the orders and over what
\* _capture_centers may see in the adjudicated state.
Played(h, s, m, elim, selected) ==
    UNION {{[heap |-> CollectedIn(step(h, s, selected, res, seen)),
             eliminated |-> eliminated_after(h, s, selected, res, elim)] :
               seen \in OwnersSeenIn(adjudicate_orders(h, s, selected, res), m)} :
           res \in Resolutions(UnitsOf(h.objs, h.tops, h.inners, s), selected)}

\* The owners that _center_counts counts: every owner but None.
Owners(center_owner) == {center_owner[c] : c \in DOMAIN center_owner} \ {None}

\* _center_counts: the number of centers of every owner.
_center_counts(center_owner) ==
    [p \in Owners(center_owner) |->
        Cardinality({c \in DOMAIN center_owner : center_owner[c] = p})]

\* Mutant of _check_target_centers: one of the powers that reached the target
\* wins, however many of them there are.
_check_target_centers_any(center_owner, target) ==
    LET counts == _center_counts(center_owner)
        winners == {p \in DOMAIN counts : counts[p] >= target}
    IN IF winners # {} THEN CHOOSE p \in winners : TRUE ELSE None

\* _check_target_centers: the only power with at least target centers, or None.
_check_target_centers(center_owner, target) ==
    LET counts == _center_counts(center_owner)
        winners == {p \in DOMAIN counts : counts[p] >= target}
    IN IF Cardinality(winners) = 1 THEN CHOOSE p \in winners : TRUE ELSE None

\* _resolve_max_turns: the only power with the most centers wins, and the game
\* is drawn when there is no such power.
_resolve_max_turns(center_owner, turn) ==
    LET counts == _center_counts(center_owner)
        leaders == {p \in DOMAIN counts : \A q \in DOMAIN counts : counts[q] <= counts[p]}
    IN IF DOMAIN counts = {}
       THEN GameResult(None, TRUE, counts, turn, "max_turns")
       ELSE IF Cardinality(leaders) = 1
       THEN GameResult(CHOOSE p \in leaders : TRUE, FALSE, counts, turn, "max_turns")
       ELSE GameResult(None, TRUE, counts, turn, "max_turns")

\* The center_owner dicts a Game starts with: every supply center unowned, as
\* initialize_state leaves the centers that are no home, or every supply center
\* that a unit stands on owned by that unit's power, as it leaves the homes.
StartingOwners(m, units) ==
    {[c \in Range(m.supply_centers) |-> None],
     [c \in Range(m.supply_centers) |->
         IF \E k \in DOMAIN units : units[k] = c
         THEN (CHOOSE k \in DOMAIN units : units[k] = c)[1] ELSE None]}

\* The heap holding the GameState a Game is made with.
GameBoard(nested, center_owner, turn) ==
    /\ objs = <<[units |-> 1, center_owner |-> 1, turn |-> turn]>>
    /\ tops = <<[p \in DOMAIN nested |-> Rank(p, DOMAIN nested)]>>
    /\ inners = [j \in 1..Cardinality(DOMAIN nested) |-> nested[PowerAt(j, DOMAIN nested)]]
    /\ centers = <<center_owner>>
    /\ state = 1

\* Game(map_def, state, target_centers, max_turns): the units of the state
\* stand on nodes of the map, no two on one node, and no power is eliminated.
InitGameWith(maps, layouts) ==
    /\ map_def \in maps
    /\ \E nested \in layouts :
          /\ DOMAIN nested # {}
          /\ \E t \in 0..MaxTurn :
                \E owners \in StartingOwners(map_def,
                                  [k \in {x \in UnitKeys : x[1] \in DOMAIN nested
                                                           /\ x[2] \in DOMAIN nested[x[1]]} |->
                                      nested[k[1]][k[2]]]) :
                   /\ GameBoard(nested, owners, t)
                   /\ initial_turn = t
    /\ target_centers \in 1..2
    /\ max_turns \in 0..MaxRounds
    /\ eliminated = {}
    /\ rounds = 0
    /\ result = NoResult
    /\ power = None
    /\ error = validate_map(map_def)
    /\ orders_by_unit = <<>>
    /\ before = <<>>
    /\ pc = "run"
    /\ orders = <<>>
    /\ next_state = 0
    /\ again_orders = <<>>
    /\ again = 0
    /\ IdleLoop
    /\ IdleTalk
    /\ IdleDeal

InitGame == InitGameWith(GameMaps, UnitLayouts)

\* The center_owner dict of self.state.
CenterOwner == centers[objs[state].center_owner]

\* Game.run, lines 51-59: the loop returns the winner by centers.
ReturnWinner ==
    /\ pc = "run"
    /\ _check_target_centers(CenterOwner, target_centers) # None
    /\ result' = GameResult(_check_target_centers(CenterOwner, target_centers), FALSE,
                            _center_counts(CenterOwner), objs[state].turn, "target_centers")
    /\ pc' = "done"
    /\ UNCHANGED <<objs, tops, inners, centers, state, orders, before, next_state,
                   again_orders, again, loopVars, mapVars, talkVars, dealVars,
                   target_centers, max_turns, eliminated, initial_turn, rounds>>

\* Game.run, lines 60-61: the loop returns at the turn limit.
ReturnAtLimit ==
    /\ pc = "run"
    /\ _check_target_centers(CenterOwner, target_centers) = None
    /\ objs[state].turn >= max_turns
    /\ result' = _resolve_max_turns(CenterOwner, objs[state].turn)
    /\ pc' = "done"
    /\ UNCHANGED <<objs, tops, inners, centers, state, orders, before, next_state,
                   again_orders, again, loopVars, mapVars, talkVars, dealVars,
                   target_centers, max_turns, eliminated, initial_turn, rounds>>

\* Game.run, lines 63-66: orders = self._select_orders() and
\* self.state = self.step(orders).  before is the Game before the round.
PlayRound ==
    /\ pc = "run"
    /\ _check_target_centers(CenterOwner, target_centers) = None
    /\ objs[state].turn < max_turns
    /\ \E selected \in UNION {_select_orders(Heap, state, map_def, eliminated, ord) :
                                 ord \in IterOrders(Units)} :
          \E r \in Played(Heap, state, map_def, eliminated, selected) :
             /\ Install(r.heap)
             /\ state' = r.heap.ret
             /\ orders' = selected
             /\ eliminated' = r.eliminated
    /\ before' = [state |-> ValueOf(objs, tops, inners, centers, state),
                  eliminated |-> eliminated]
    /\ rounds' = rounds + 1
    /\ pc' = "played"
    /\ UNCHANGED <<next_state, again_orders, again, loopVars, mapVars, talkVars,
                   dealVars, target_centers, max_turns, initial_turn, result>>

\* Game.run, line 51: the loop starts over; the orders of the round are gone.
LoopAgain ==
    /\ pc = "played"
    /\ orders' = <<>>
    /\ before' = <<>>
    /\ pc' = "run"
    /\ UNCHANGED <<objs, tops, inners, centers, state, next_state, again_orders, again,
                   loopVars, mapVars, talkVars, dealVars, gameVars>>

NextGame == ReturnWinner \/ ReturnAtLimit \/ PlayRound \/ LoopAgain

SpecGame == InitGame /\ [][NextGame]_vars

\* The Games of at most two units on the map mini, whose run is never left
\* waiting.
InitGameFair ==
    InitGameWith({mini}, {nested \in UnitLayouts :
                             Cardinality(UNION {DOMAIN nested[p] : p \in DOMAIN nested}) <= 2})
\* run is a loop of one thread that nothing suspends: weak fairness of
\* NextGame, WF_vars(NextGame), written out with ENABLED <<NextGame>>_vars as
\* the state predicate it equals, pc # "done".
FairGame == []<>(pc = "done") \/ []<><<NextGame>>_vars
SpecGameFair == InitGameFair /\ [][NextGame]_vars /\ FairGame

\* ============================================================ properties
\* The first call has just returned.
Returned == pc = "returned"

\* What a property reads of the first call: the units of the input state and of
\* the returned state, the normalized orders and the strengths.
View ==
    LET norm == _normalize_orders(Units, orders)
    IN [units |-> Units,
        out |-> UnitsOf(objs, tops, inners, next_state),
        norm |-> norm,
        ms |-> _compute_move_strengths(Units, norm),
        hs |-> _compute_hold_strengths(Units, norm)]

HoldStrength(v, k) == IF k \in DOMAIN v.hs THEN v.hs[k] ELSE 1
MoversTo(v, d) == {k \in DOMAIN v.ms : v.norm[k].to_node = d}
\* Unit k is in the returned state, on the node it had.
Stays(v, k) == k \in DOMAIN v.out /\ v.out[k] = v.units[k]
\* Unit k is in the returned state, on node d.
EndsAt(v, k, d) == k \in DOMAIN v.out /\ v.out[k] = d
\* Unit k is not in the returned state.
Gone(v, k) == k \notin DOMAIN v.out
\* Unit k is gone and another unit has moved onto its node.
PushedOut(v, k) ==
    /\ Gone(v, k)
    /\ \E w \in DOMAIN v.out :
          w # k /\ v.out[w] = v.units[k] /\ v.units[w] # v.units[k]

\* C1: from a state in which no two units share a node, the state returned by
\* adjudicate_orders has no two distinct units on the same node.
C1_NoSharedNode ==
    Returned =>
        LET v == View
        IN \A a, b \in DOMAIN v.out : a # b => v.out[a] # v.out[b]

\* C1 witness: a returned state in which a unit has moved onto a node that
\* another unit occupied when the call began.
C1_Witness ==
    /\ Returned
    /\ LET v == View
       IN \E k \in DOMAIN v.out, d \in DOMAIN v.units :
             d # k /\ v.out[k] = v.units[d] /\ v.out[k] # v.units[k]

\* u1 and u2 each move onto the other's node.
HeadToHead(v, u1, u2) ==
    /\ u1 \in DOMAIN v.ms /\ u2 \in DOMAIN v.ms /\ u1 # u2
    /\ v.norm[u1].to_node = v.units[u2]
    /\ v.norm[u2].to_node = v.units[u1]

\* C2: when u1 and u2 move onto each other's node with equal strength, both
\* are still on their own node in the returned state.
C2_HeadToHeadBounces ==
    Returned =>
        LET v == View
        IN \A u1, u2 \in DOMAIN v.units :
              (HeadToHead(v, u1, u2) /\ v.ms[u1] = v.ms[u2])
                  => (Stays(v, u1) /\ Stays(v, u2))

\* C3: when u1 and u2 move onto each other's node and u1's move is strictly
\* stronger, u1 ends on u2's node and u2 is not in the returned state.
C3_StrongerSwapDislodges ==
    Returned =>
        LET v == View
        IN \A u1, u2 \in DOMAIN v.units :
              (HeadToHead(v, u1, u2) /\ v.ms[u1] > v.ms[u2])
                  => (EndsAt(v, u1, v.units[u2]) /\ Gone(v, u2))

\* Two or more of the moves to d share the greatest strength of the moves to d.
TiedAt(v, d) ==
    \E a, b \in MoversTo(v, d) :
        /\ a # b
        /\ v.ms[a] = v.ms[b]
        /\ \A k \in MoversTo(v, d) : v.ms[k] <= v.ms[a]

\* No unit has come onto node d in the call.
NoneEnters(v, d) == \A k \in DOMAIN v.out : v.out[k] = d => v.units[k] = d

AttacksHolder(v, m, x) ==
    /\ m \in DOMAIN v.ms /\ x \in DOMAIN v.units /\ x # m
    /\ v.norm[m].to_node = v.units[x]
    /\ v.norm[x].kind = "Hold"

\* Unit m's move is strictly stronger than every other move to its target.
UniqueStrongest(v, m) ==
    \A k \in MoversTo(v, v.norm[m].to_node) : k # m => v.ms[k] < v.ms[m]

\* C5: a move that is the unique strongest to its destination and strictly
\* stronger than the hold of the unit holding there succeeds: the mover ends on
\* the destination and the holder is not in the returned state.
C5_StrongerMoveDislodgesHolder ==
    Returned =>
        LET v == View
        IN \A m, x \in DOMAIN v.units :
              (AttacksHolder(v, m, x) /\ UniqueStrongest(v, m)
                                      /\ v.ms[m] > HoldStrength(v, x))
                  => (EndsAt(v, m, v.units[x]) /\ Gone(v, x))

\* C5 witness: a supported move against a weaker hold has been adjudicated.
C5_Witness ==
    /\ Returned
    /\ LET v == View
       IN \E m, x \in DOMAIN v.units :
             /\ AttacksHolder(v, m, x) /\ UniqueStrongest(v, m)
             /\ v.ms[m] > HoldStrength(v, x)
             /\ Gone(v, x)

\* C6 as claimed: a move no stronger than the hold of the unit holding at its
\* destination fails, and mover and holder are both still on their own nodes.
C6_BlockedBothStay ==
    Returned =>
        LET v == View
        IN \A m, x \in DOMAIN v.units :
              (AttacksHolder(v, m, x) /\ v.ms[m] <= HoldStrength(v, x))
                  => (Stays(v, m) /\ Stays(v, x))

\* C6 as amended: a move no stronger than the hold of the unit holding at its
\* destination fails: the mover does not reach the destination, and mover and
\* holder are each still on their own node unless another unit's successful
\* move onto that node has dislodged them.
C6_BlockedMoveFails ==
    Returned =>
        LET v == View
        IN \A m, x \in DOMAIN v.units :
              (AttacksHolder(v, m, x) /\ v.ms[m] <= HoldStrength(v, x))
                  => /\ ~EndsAt(v, m, v.units[x])
                     /\ Stays(v, m) \/ PushedOut(v, m)
                     /\ Stays(v, x) \/ PushedOut(v, x)

\* C6 witness: a move blocked by a hold whose holder a third unit dislodges.
C6_Witness ==
    /\ Returned
    /\ LET v == View
       IN \E m, x \in DOMAIN v.units :
             /\ AttacksHolder(v, m, x) /\ v.ms[m] <= HoldStrength(v, x)
             /\ Stays(v, m) /\ PushedOut(v, x)

\* The units whose Support order names unit k, and those of them whose declared
\* from_node is the node k stands on.
SupportersOf(v, k) ==
    {s \in DOMAIN v.norm : v.norm[s].kind = "Support" /\ v.norm[s].supported = k}
CurrentSupportersOf(v, k) ==
    {s \in SupportersOf(v, k) : v.norm[s].from_node = v.units[k]}

\* C7: a Support order whose from_node is not the supported unit's node adds
\* nothing to that unit's move strength or hold strength: each strength is at
\* most 1 plus the number of supports that name the unit's actual node, so a
\* mover with only stale support does not get past a holder.
C7_StaleSupportAddsNothing ==
    Returned =>
        LET v == View
        IN \A k \in DOMAIN v.units :
              /\ k \in DOMAIN v.ms =>
                    v.ms[k] <= 1 + Cardinality(CurrentSupportersOf(v, k))
              /\ HoldStrength(v, k) <= 1 + Cardinality(CurrentSupportersOf(v, k))
              /\ \A x \in DOMAIN v.units :
                    (AttacksHolder(v, k, x) /\ CurrentSupportersOf(v, k) = {})
                        => ~EndsAt(v, k, v.units[x])

\* C7 witness: the call has returned a state for a move, against a holder, to
\* the node a stale Support order names, and the mover is still on its node.
C7_Witness ==
    /\ Returned
    /\ LET v == View
       IN \E k, x \in DOMAIN v.units :
             /\ AttacksHolder(v, k, x)
             /\ \E s \in SupportersOf(v, k) \ CurrentSupportersOf(v, k) :
                   v.norm[s].to_node = v.norm[k].to_node
             /\ Stays(v, k)

\* C8: a second call of adjudicate_orders with the same state and orders
\* returns a state equal to the first call's, whatever order each call
\* iterates in.
C8_Deterministic ==
    pc = "repeated" =>
        ValueOf(objs, tops, inners, centers, again)
            = ValueOf(objs, tops, inners, centers, next_state)

\* C8 witness: both calls have returned, the board has several iteration
\* orders, two moves competed for a node, and a unit has changed node.
C8_Witness ==
    /\ pc = "repeated"
    /\ Cardinality(IterOrders(Units)) > 1
    /\ LET v == View
       IN /\ \E d \in Nodes : Cardinality(MoversTo(v, d)) > 1
          /\ \E k \in DOMAIN v.out : v.out[k] # v.units[k]

\* C9: adjudicate_orders does not modify its input: after the call, and after
\* any later change to the returned state's units or center_owner mappings,
\* the input state has the value it had when the call began.
C9_InputUntouched ==
    pc # "call" => ValueOf(objs, tops, inners, centers, state) = before

\* C9 witness: the call dislodged a unit and relocated another, and the caller
\* has since changed the returned state.
C9_Witness ==
    /\ pc = "changed"
    /\ \E res \in Resolutions(Units, orders) : res.dislodged # {}

\* C10: a unit with no entry in the orders mapping is treated as ordered to
\* Hold: the call with an explicit Hold for each such unit returns a state equal
\* to the first call's, and every unit has the same hold strength in both.
C10_MissingOrderIsHold ==
    pc = "explicit" =>
        /\ ValueOf(objs, tops, inners, centers, again)
              = ValueOf(objs, tops, inners, centers, next_state)
        /\ _compute_hold_strengths(Units, _normalize_orders(Units, orders))
              = _compute_hold_strengths(Units, _normalize_orders(Units, again_orders))

\* C10 witness: a unit left without an order has a valid hold-support, which
\* raises its hold strength to 2, and both calls have returned.
C10_Witness ==
    /\ pc = "explicit"
    /\ LET v == View
       IN \E k \in DOMAIN v.units \ DOMAIN orders : HoldStrength(v, k) = 2

\* ------------------------------------------------- the call, pass by pass
\* A unit other than k is in the success set S with a move onto k's node.
Entered(v, S, k) == \E m \in S : m # k /\ v.norm[m].to_node = v.units[k]

\* C11: in the returned state a unit is absent exactly when its input node is
\* the destination of a successful move by a different unit and it did not
\* itself move successfully; every unit with a successful move is on its
\* destination; every other unit is on its input node.
C11_ApplyResults ==
    Returned =>
        LET v == View
        IN /\ DOMAIN v.out \subseteq DOMAIN v.units
           /\ \A k \in DOMAIN v.units :
                 /\ Gone(v, k) <=> (k \notin successful /\ Entered(v, successful, k))
                 /\ k \in successful => EndsAt(v, k, v.norm[k].to_node)
                 /\ (k \notin successful /\ ~Gone(v, k)) => Stays(v, k)

\* C11 witness: the call returned a state from which one unit is absent, in
\* which one has changed node and one is where it was.
C11_Witness ==
    /\ Returned
    /\ LET v == View
       IN /\ \E k \in DOMAIN v.units : Gone(v, k) /\ Entered(v, successful, k)
          /\ \E k \in successful : EndsAt(v, k, v.norm[k].to_node) /\ ~Stays(v, k)
          /\ \E k \in DOMAIN v.units \ successful : Stays(v, k)

\* Unit s gives a Support order that names unit k, the node k stands on and
\* what k is ordered to do: its move to to_node, or its hold.
ValidSupport(v, s, k) ==
    /\ v.norm[s].kind = "Support"
    /\ v.norm[s].supported = k
    /\ k \in DOMAIN v.units
    /\ v.norm[s].from_node = v.units[k]
    /\ \/ v.norm[k].kind = "Move" /\ v.norm[s].to_node = v.norm[k].to_node
       \/ v.norm[k].kind = "Hold" /\ v.norm[s].to_node = None

\* The strength of unit k's move, or of its hold.
Strength(v, k) == IF k \in DOMAIN v.ms THEN v.ms[k] ELSE HoldStrength(v, k)

\* Another unit's Move order targets the node unit s stands on.
Attacked(v, s) ==
    \E a \in DOMAIN v.ms : a # s /\ v.norm[a].to_node = v.units[s]

\* C12: no support is cut: every valid Support order adds 1 to the strength of
\* the unit it supports, also when the supporter's node is the destination of
\* another unit's Move and when the supporter is dislodged in the same call.
C12_NoSupportCutting ==
    Returned =>
        LET v == View
        IN \A k \in DOMAIN v.units :
              v.norm[k].kind \in {"Move", "Hold"} =>
                  Strength(v, k)
                      = 1 + Cardinality({s \in DOMAIN v.units : ValidSupport(v, s, k)})

\* C12 witness: a supporter whose node was attacked is dislodged, and the move
\* it supported has pushed out the unit on its destination with strength 2.
C12_Witness ==
    /\ Returned
    /\ LET v == View
       IN \E s, k \in DOMAIN v.units :
             /\ ValidSupport(v, s, k) /\ k \in DOMAIN v.ms
             /\ Attacked(v, s) /\ PushedOut(v, s)
             /\ v.ms[k] = 2
             /\ EndsAt(v, k, v.norm[k].to_node)
             /\ \E x \in DOMAIN v.units : x # k /\ v.units[x] = v.norm[k].to_node

\* The candidate moves of the call, under each order of iteration.
CandidateSets ==
    LET norm == _normalize_orders(Units, orders)
        ms == _compute_move_strengths(Units, norm)
    IN {_determine_candidate_moves(norm, ms, ord) : ord \in IterOrders(Units)}

\* What one more pass would remove from the success set, under each order.
RemovalSets ==
    LET norm == _normalize_orders(Units, orders)
        ms == _compute_move_strengths(Units, norm)
        hs == _compute_hold_strengths(Units, norm)
    IN {Removals(Units, norm, ms, hs, ord, successful) : ord \in IterOrders(Units)}

\* C13: the loop of _resolve_move_success terminates: the call leaves the loop,
\* after at most (number of candidate moves + 1) passes; while it runs the
\* success set only shrinks, and it shrinks in every pass but the last; it ends
\* with a set from which one more pass would remove nothing.
C13_LoopTerminates ==
    /\ (pc = "loop") ~> (pc = "resolved")
    /\ [](pc \in {"loop", "resolved"} =>
             \A c \in CandidateSets : passes <= Cardinality(c) + 1)
    /\ [][pc = "loop" =>
             /\ successful' \subseteq successful
             /\ pc' = "loop" => successful' # successful]_vars
    /\ [](pc = "resolved" => RemovalSets = {{}})

\* C13 witness: the loop has ended after three or more passes, one more than
\* there were candidate moves.
C13_Witness ==
    /\ pc = "resolved"
    /\ passes >= 3
    /\ \A c \in CandidateSets : passes = Cardinality(c) + 1

\* The chains of the call: two or three distinct units, each with a move of
\* strength 1, each but the last onto the node of the next.
Chains(v) ==
    {c \in UNION {[1..n -> DOMAIN v.ms] : n \in 2..(Len(AllKeys) - 1)} :
        /\ \A i, j \in DOMAIN c : i # j => c[i] # c[j]
        /\ \A i \in DOMAIN c : v.ms[c[i]] = 1
        /\ \A i \in DOMAIN c : i < Len(c) => v.norm[c[i]].to_node = v.units[c[i + 1]]}

\* The last unit of chain c moves onto the node of a unit outside the chain
\* that does not leave it: its order is not a move that succeeds.
BlockedChain(v, c) ==
    \E h \in DOMAIN v.units :
        /\ \A i \in DOMAIN c : c[i] # h
        /\ v.norm[c[Len(c)]].to_node = v.units[h]
        /\ h \notin successful

\* C14 as claimed: when the units of a chain each make an unsupported move onto
\* the node of the next and the last one's destination is held by a defender
\* that does not leave, every unit of the chain is still on its own node.
C14_BlockedChainAllStay ==
    Returned =>
        LET v == View
        IN \A c \in Chains(v) :
              BlockedChain(v, c) => \A i \in DOMAIN c : Stays(v, c[i])

\* C14 as amended: when the units of a chain each make an unsupported move onto
\* the node of the next and the last one's destination is held by a defender
\* that does not leave, no unit of the chain relocates: each is still on its own
\* node unless another unit's successful move onto that node has dislodged it.
\* So a chain all of whose units relocate has no blocked link.
C14_BlockedChainNoneRelocates ==
    Returned =>
        LET v == View
        IN \A c \in Chains(v) :
              BlockedChain(v, c) =>
                  \A i \in DOMAIN c :
                      /\ c[i] \notin successful
                      /\ Stays(v, c[i]) \/ PushedOut(v, c[i])

\* C14 witness: a blocked chain of three units has been adjudicated in three
\* or more passes.
C14_Witness ==
    /\ Returned
    /\ passes >= 3
    /\ LET v == View
       IN \E c \in Chains(v) : Len(c) = 3 /\ BlockedChain(v, c)

\* ------------------------------------------------------------ validate_map
\* validate_map has returned or raised.
Validated == pc \in {"validated", "raised"}

\* Some edge of the map has an endpoint that is not listed in its nodes.
UnknownEndpoint(m) ==
    \E i \in DOMAIN m.edges :
        m.edges[i][1] \notin Range(m.nodes) \/ m.edges[i][2] \notin Range(m.nodes)

\* C15: validate_map raises an error for every map that has an edge one of
\* whose endpoints is not listed in the map's nodes.
C15_UnknownEndpointRaises ==
    (Validated /\ UnknownEndpoint(map_def)) => error # None

DuplicateNode(m) == \E i, j \in DOMAIN m.nodes : i # j /\ m.nodes[i] = m.nodes[j]
DuplicateEdge(m) ==
    \E i, j \in DOMAIN m.edges :
        i # j /\ {m.edges[i][1], m.edges[i][2]} = {m.edges[j][1], m.edges[j][2]}
\* The home centers of the map: every node name home_centers gives a power.
HomeCentersOf(m) == UNION {Range(m.home_centers[p].items) : p \in DOMAIN m.home_centers}
BadCenter(m) ==
    \/ ~(Range(m.supply_centers) \subseteq Range(m.nodes))
    \/ ~(HomeCentersOf(m) \subseteq Range(m.nodes))

\* C16: validate_map raises an error when nodes contains a duplicate, when two
\* edges are the same unordered pair, when a supply center is not in nodes, or
\* when a home center is not in nodes; it returns, changing nothing, when none
\* of these holds and every edge endpoint is a node.
C16_RaisesOrReturns ==
    Validated =>
        /\ (DuplicateNode(map_def) \/ DuplicateEdge(map_def) \/ BadCenter(map_def))
              => error # None
        /\ ~(DuplicateNode(map_def) \/ DuplicateEdge(map_def) \/ BadCenter(map_def)
                \/ UnknownEndpoint(map_def))
              => (error = None /\ map_def = before)

\* C17: validate_map returns without raising for the shipped triangle3 and
\* sample4 maps, whose home_centers give each power a group of several centers,
\* all of them in nodes.
C17_ShippedMapsAccepted ==
    (Validated /\ map_def \in {triangle3, sample4}) => error = None

\* ------------------------------------------------------------ legal_orders
\* legal_orders has returned.
Listed == pc = "listed"

\* The unit ids the power has in the state.
UnitIdsOf(units, p) == {k[2] : k \in {x \in DOMAIN units : x[1] = p}}

\* C18: legal_orders returns a mapping whose keys are exactly the unit ids
\* the power has in the state; every unit's list is non-empty and contains
\* Hold(power, unit_id); for a power with no unit the mapping is empty.
C18_KeysAndHold ==
    Listed =>
        LET units == AllUnitsOf(objs, tops, inners, state)
        IN /\ DOMAIN orders_by_unit = UnitIdsOf(units, power)
           /\ \A u \in DOMAIN orders_by_unit :
                 /\ Len(orders_by_unit[u]) >= 1
                 /\ OrderOf(power, u, Hold) \in Range(orders_by_unit[u])
           /\ (UnitIdsOf(units, power) = {}) => (orders_by_unit = <<>>)

\* C18 witness: the power has two units, and legal_orders has returned a list
\* for each, one of them holding more than the Hold.
C18_Witness ==
    /\ Listed
    /\ Cardinality(DOMAIN orders_by_unit) = 2
    /\ \E u \in DOMAIN orders_by_unit : Len(orders_by_unit[u]) > 1

\* Every node name of the map: its nodes and the endpoints of its edges.
NamesOf(m) == Range(m.nodes) \cup Endpoints(m.edges)
\* Some edge of the map joins a and b.
Joined(m, a, b) == \E i \in DOMAIN m.edges : {m.edges[i][1], m.edges[i][2]} = {a, b}
\* The orders of one kind in a list, by position.
OfKind(list, kind) == {j \in DOMAIN list : list[j].order.kind = kind}

\* C19: for a unit at a node L of the map, the Move orders of its list are
\* exactly one Move per neighbour of L: no Move to L itself, to a node that no
\* edge joins to L, or to a node that is not in the map's nodes, and no
\* neighbour is missing.
C19_MovesAreNeighbors ==
    Listed =>
        LET units == AllUnitsOf(objs, tops, inners, state)
        IN \A u \in DOMAIN orders_by_unit :
              LET L == units[<<power, u>>]
                  list == orders_by_unit[u]
                  moves == OfKind(list, "Move")
                  nbrs == {n \in Range(map_def.nodes) : n # L /\ Joined(map_def, L, n)}
              IN L \in Range(map_def.nodes) =>
                    /\ \A j \in moves : list[j].order.to_node \in nbrs
                    /\ \A n \in nbrs :
                          Cardinality({j \in moves : list[j].order.to_node = n}) = 1

\* C20: for a unit s at a node L of the map and every other unit k, the list
\* of s has a support-hold for k exactly when the node of k is joined to L,
\* and a support for a move of k to T exactly when T is joined to the node of
\* k and to L; no support is for a move into L; from_node is the node of the
\* supported unit, and s is never the supported unit.
C20_SupportsAreAdjacent ==
    Listed =>
        LET units == AllUnitsOf(objs, tops, inners, state)
        IN \A u \in DOMAIN orders_by_unit :
              LET me == <<power, u>>
                  L == units[me]
                  list == orders_by_unit[u]
                  sup == {list[j].order : j \in OfKind(list, "Support")}
              IN L \in Range(map_def.nodes) =>
                    /\ \A k \in DOMAIN units \ {me} :
                          /\ (Support(k, units[k], None) \in sup)
                                <=> Joined(map_def, units[k], L)
                          /\ \A T \in NamesOf(map_def) :
                                (Support(k, units[k], T) \in sup)
                                    <=> (Joined(map_def, T, units[k]) /\ Joined(map_def, T, L))
                    /\ \A o \in sup :
                          /\ o.to_node # L
                          /\ o.supported \in DOMAIN units \ {me}
                          /\ o.from_node = units[o.supported]

\* -------------------------------------------------------- GameState.clone
\* The addresses of the dicts a GameState holds.
DictsOf(s) ==
    [top |-> objs[s].units,
     inner |-> {tops[objs[s].units][p] : p \in DOMAIN tops[objs[s].units]},
     center |-> objs[s].center_owner]

\* C21: clone returns a state equal to the original that shares no dict with
\* it; after a later change to the units of the clone (top-level or per
\* power), to its center_owner or to its turn, the original has the value it
\* had, and after such a change to the original the clone has that value.
C21_CloneIndependent ==
    /\ (pc = "cloned") =>
          /\ next_state # state
          /\ ValueOf(objs, tops, inners, centers, next_state) = before
          /\ ValueOf(objs, tops, inners, centers, state) = before
          /\ DictsOf(next_state).top # DictsOf(state).top
          /\ DictsOf(next_state).inner \cap DictsOf(state).inner = {}
          /\ DictsOf(next_state).center # DictsOf(state).center
    /\ (pc = "changed clone") => ValueOf(objs, tops, inners, centers, state) = before
    /\ (pc = "changed original") =>
          ValueOf(objs, tops, inners, centers, next_state) = before

\* C21 witness: a unit of the clone was moved or removed, in a clone that
\* has units of two powers and an owned center.
C21_Witness ==
    /\ pc = "changed clone"
    /\ Cardinality(DOMAIN before.units) = 2
    /\ DOMAIN before.center_owner # {}
    /\ \E p \in DOMAIN before.units :
          /\ p \in DOMAIN tops[objs[next_state].units]
          /\ inners[tops[objs[next_state].units][p]] # before.units[p]

\* ------------------------------------------------------------ the protocol
\* The proposals of the latest run_turn in the order they were made: proposers
\* in the order of the powers, and for each proposer the responders in that
\* order.
Proposals ==
    LET op == ordered_powers(Self, powers)
        n == Len(op)
        all == [k \in 1..(n * n) |-> <<op[((k - 1) \div n) + 1], op[((k - 1) % n) + 1]>>]
    IN SelectSeq(all, LAMBDA pair : pair \in DOMAIN replies)

\* The deals of the latest run_turn that were accepted and have p as proposer
\* or responder, in proposal order.
AcceptedWith(p) ==
    LET mine == SelectSeq(Proposals,
                          LAMBDA pair : p \in {pair[1], pair[2]} /\ replies[pair].accept)
    IN [k \in 1..Len(mine) |-> replies[mine[k]].deal]

\* C22: after run_turn, a deal proposed by i to j is in the accepted list of
\* i and in the accepted list of j exactly when j accepted it; each list holds
\* the accepted deals of its power in proposal order and nothing else, so a
\* power that took part in no accepted deal has an empty list.
C22_AcceptedDealsRecorded ==
    (pc = "ran") =>
        /\ DOMAIN accepted = Range(ordered_powers(Self, powers))
        /\ accepted_deals_by_power = accepted
        /\ \A pair \in DOMAIN replies :
              replies[pair].deal # NoDeal =>
                  /\ (replies[pair].deal \in Range(accepted[pair[1]])) <=> replies[pair].accept
                  /\ (replies[pair].deal \in Range(accepted[pair[2]])) <=> replies[pair].accept
        /\ \A p \in DOMAIN accepted : accepted[p] = AcceptedWith(p)

\* C22 witness: three participants, one deal declined, and one power with
\* three or more accepted deals.
C22_Witness ==
    /\ pc = "ran"
    /\ Len(participants) = 3
    /\ \E pair \in DOMAIN replies : replies[pair].deal # NoDeal /\ ~replies[pair].accept
    /\ \E p \in DOMAIN accepted : Len(accepted[p]) >= 3

\* C23: after expire_deals, accepted_deals(p) is empty for every power until
\* the next run_turn; after each run_turn, accepted_deals(p) holds the deals
\* accepted in that run_turn and no deal of an earlier turn.
C23_DealsLastOneTurn ==
    /\ (pc \in {"expired", "expired again"}) =>
          \A p \in Range(TalkPowers) : accepted_deals(Self, p) = <<>>
    /\ (pc \in {"ran", "ran again"}) =>
          \A p \in Range(TalkPowers) :
              accepted_deals(Self, p) =
                  IF p \in Range(ordered_powers(Self, powers)) THEN AcceptedWith(p) ELSE <<>>

\* C23 witness: a second run_turn made while the lists still held a deal of
\* the first, and that deal was not accepted again.
C23_Witness ==
    /\ pc = "ran again"
    /\ \E p \in DOMAIN before :
          \E k \in DOMAIN before[p] :
             /\ p \in DOMAIN accepted
             /\ accepted[p] # <<>>
             /\ before[p][k] \notin Range(accepted[p])

\* ---------------------------------------------------------------- the deals
\* allowed_orders has returned; violations has returned.
Restricted == pc \in {"allowed", "judged"}
Judged == pc = "judged"

\* The nodes the units of power p stand on.
NodesOf(units, p) == {units[k] : k \in {x \in DOMAIN units : x[1] = p}}

\* The list without its Move orders into one of the nodes.
WithoutMovesTo(list, nodes) ==
    SelectSeq(list, LAMBDA o : ~(o.order.kind = "Move" /\ o.order.to_node \in nodes))

\* The units whose submitted order is a Move into one of the nodes.
MovingTo(nodes) ==
    {u \in DOMAIN submitted :
        submitted[u].order.kind = "Move" /\ submitted[u].order.to_node \in nodes}

\* found holds one violation for each unit of U and nothing else, each naming
\* the power, the deal, the unit and its submitted order.
OnePerUnit(U) ==
    /\ Len(found) = Cardinality(U)
    /\ {found[n].unit_id : n \in DOMAIN found} = U
    /\ \A n \in DOMAIN found :
          /\ found[n].power = power
          /\ found[n].deal = deal
          /\ found[n].unit_id \in DOMAIN submitted => found[n].order = submitted[found[n].unit_id]

\* C24: for a PeaceDeal built by from_state between i and j, allowed_orders
\* for i or j returns, per unit, the input list minus exactly the Move orders
\* into a node the other party occupied in the state the deal was built from,
\* and for a third power the input unchanged; violations reports exactly one
\* violation per submitted Move into a node the other party occupies now,
\* naming that unit.
C24_PeaceDeal ==
    /\ Restricted =>
          IF power \in {deal.i, deal.j}
          THEN /\ DOMAIN allowed = DOMAIN orders_by_unit
               /\ \A u \in DOMAIN allowed :
                     allowed[u] = WithoutMovesTo(orders_by_unit[u],
                                                 NodesOf(before, Opponent(deal, power)))
          ELSE allowed = orders_by_unit
    /\ Judged =>
          IF power \in {deal.i, deal.j}
          THEN OnePerUnit(MovingTo(NodesOf(AllUnitsOf(objs, tops, inners, state),
                                           Opponent(deal, power))))
          ELSE found = <<>>

\* C24 witness: a unit moved after the deal was made, allowed_orders removed
\* a Move, and a submitted Move is reported.
C24_Witness ==
    /\ Judged
    /\ AllUnitsOf(objs, tops, inners, state) # before
    /\ allowed # orders_by_unit
    /\ found # <<>>

\* The Support orders of the list that the deal asks for.
RequiredIn(list) ==
    SelectSeq(list, LAMBDA o : /\ o.order.kind = "Support"
                               /\ o.order.supported = deal.supported_unit
                               /\ o.order.from_node = deal.from_node
                               /\ o.order.to_node = deal.to_node)

\* C25: for a SupportDeal, allowed_orders for the supporter's power restricts
\* the supporter unit's list to exactly the Support orders matching the deal's
\* supported unit, from_node and to_node, and leaves every other unit's list
\* and every other power's orders unchanged; violations reports exactly one
\* violation, for the supporter unit, when that unit is on the board and its
\* submitted order is missing or is not the required support, and none
\* otherwise.
C25_SupportDeal ==
    /\ Restricted =>
          IF power = deal.supporter_unit[1]
          THEN /\ DOMAIN allowed = DOMAIN orders_by_unit
               /\ \A u \in DOMAIN allowed :
                     allowed[u] = IF u = deal.supporter_unit[2]
                                  THEN RequiredIn(orders_by_unit[u])
                                  ELSE orders_by_unit[u]
          ELSE allowed = orders_by_unit
    /\ Judged =>
          LET unit == deal.supporter_unit[2]
              failing ==
                  /\ power = deal.supporter_unit[1]
                  /\ deal.supporter_unit \in DOMAIN AllUnitsOf(objs, tops, inners, state)
                  /\ \/ unit \notin DOMAIN submitted
                     \/ RequiredIn(<<submitted[unit]>>) = <<>>
          IN IF failing THEN OnePerUnit({unit}) ELSE found = <<>>

\* C25 witness: the supporter unit has the required support among its legal
\* orders and other orders beside it, and submitted one of the others.
C25_Witness ==
    /\ Judged
    /\ power = deal.supporter_unit[1]
    /\ deal.supporter_unit[2] \in DOMAIN allowed
    /\ allowed[deal.supporter_unit[2]] # <<>>
    /\ deal.supporter_unit[2] \in DOMAIN submitted
    /\ Len(found) = 1

\* C26: for a NoEnterDeal on node n between i and j, allowed_orders for i or
\* j removes exactly the Move orders with destination n from every unit's
\* list and returns a third power's orders unchanged; violations reports
\* exactly one violation per submitted Move to n by i or j, naming that unit.
C26_NoEnterDeal ==
    /\ Restricted =>
          IF power \in {deal.i, deal.j}
          THEN /\ DOMAIN allowed = DOMAIN orders_by_unit
               /\ \A u \in DOMAIN allowed :
                     allowed[u] = WithoutMovesTo(orders_by_unit[u], {deal.node})
          ELSE allowed = orders_by_unit
    /\ Judged =>
          IF power \in {deal.i, deal.j}
          THEN OnePerUnit(MovingTo({deal.node}))
          ELSE found = <<>>

\* C26 witness: the power is the second party of the deal, two of its units
\* had a Move to the node removed, and both submitted that Move.
C26_Witness ==
    /\ Judged
    /\ power = deal.j
    /\ Len(found) = 2
    /\ \A u \in DOMAIN allowed : allowed[u] # orders_by_unit[u]

\* ------------------------------------------------------------ the random agent
\* The unit ids power has in the state.
UnitsOfPower ==
    {k[2] : k \in {x \in DOMAIN AllUnitsOf(objs, tops, inners, state) : x[1] = power}}

\* legal_orders(state, map_def, power), computed again after the call.
LegalNow ==
    legal_orders(objs, tops, inners, state, map_def, power,
                 CHOOSE ord \in IterOrders(AllUnitsOf(objs, tops, inners, state)) : TRUE)

\* C27: select_orders(state, map, power) returns exactly one order per unit of
\* power: its keys are exactly (power, unit_id) for the units power has in the
\* state, and each chosen order is a member of
\* legal_orders(state, map, power)[unit_id], whatever the random choices.
C27_OneLegalOrderPerUnit ==
    pc = "selected" =>
        /\ DOMAIN orders = {<<power, u>> : u \in UnitsOfPower}
        /\ \A k \in DOMAIN orders : orders[k] \in Range(LegalNow[k[2]])

\* C27 witness: the power has two units, and the agent gave one a Move and the
\* other a Support.
C27_Witness ==
    /\ pc = "selected"
    /\ Cardinality(DOMAIN orders) = 2
    /\ {orders[k].order.kind : k \in DOMAIN orders} = {"Move", "Support"}

\* ------------------------------------------------------ strengths and stands
\* The units whose Support order names unit k, the node k stands on and the
\* destination of k's move.
MoveSupportersOf(v, k) ==
    {s \in DOMAIN v.units :
        /\ v.norm[s].kind = "Support"
        /\ v.norm[s].supported = k
        /\ v.norm[s].from_node = v.units[k]
        /\ v.norm[s].to_node = v.norm[k].to_node}

AttacksNonHolder(v, m, x) ==
    /\ m \in DOMAIN v.ms /\ x \in DOMAIN v.units /\ x # m
    /\ v.norm[m].to_node = v.units[x]
    /\ \/ v.norm[x].kind = "Support"
       \/ v.norm[x].kind = "Move" /\ ~EndsAt(v, x, v.norm[x].to_node)

\* The units whose Support order, with to_node None, names unit k on its node.
HoldSupportersOf(v, k) ==
    {s \in CurrentSupportersOf(v, k) : v.norm[s].to_node = None}

\* C29: only a unit whose order is Hold gains hold-support; a unit whose order
\* is Support, or a Move that fails, defends with strength 1 whatever Support
\* orders with to_node None name it: a move of strength 2 or more into its node
\* that is the unique strongest there dislodges it, and a move of strength 1
\* fails.
C29_OnlyHoldersGainHoldSupport ==
    Returned =>
        LET v == View
        IN /\ \A k \in DOMAIN v.hs : v.norm[k].kind = "Hold"
           /\ \A m, x \in DOMAIN v.units :
                 AttacksNonHolder(v, m, x) =>
                     /\ (v.ms[m] >= 2 /\ UniqueStrongest(v, m))
                            => (EndsAt(v, m, v.units[x]) /\ Gone(v, x))
                     /\ v.ms[m] = 1 => ~EndsAt(v, m, v.units[x])

\* C29 witness: a unit whose move failed, named on its node by a Support
\* order with to_node None, has been dislodged by a move of strength 2.
C29_Witness ==
    /\ Returned
    /\ LET v == View
       IN \E m, x \in DOMAIN v.units :
             /\ AttacksNonHolder(v, m, x)
             /\ v.norm[x].kind = "Move"
             /\ HoldSupportersOf(v, x) # {}
             /\ v.ms[m] = 2
             /\ Gone(v, x)

\* The unit standing on node d in the input state, NoStander for none.
NoStander == <<>>
StanderAt(v, d) ==
    IF \E k \in DOMAIN v.units : v.units[k] = d
    THEN CHOOSE k \in DOMAIN v.units : v.units[k] = d ELSE NoStander

\* Unit m's move is a candidate whose destination is empty, or is left by an
\* occupant whose own move succeeds.
MovesIntoFreedNode(v, m) ==
    LET x == StanderAt(v, v.norm[m].to_node)
    IN /\ m \in DOMAIN v.ms
       /\ UniqueStrongest(v, m)
       /\ x # m
       /\ \/ x = NoStander
          \/ /\ v.norm[x].kind = "Move"
             /\ v.norm[x].to_node # v.units[x]
             /\ EndsAt(v, x, v.norm[x].to_node)

\* Units a, b and c each make an unsupported move, that no other move
\* contests, onto the node of the next.
ClosedCycle(v, a, b, c) ==
    /\ {a, b, c} \subseteq DOMAIN v.ms
    /\ a # b /\ b # c /\ c # a
    /\ v.norm[a].to_node = v.units[b]
    /\ v.norm[b].to_node = v.units[c]
    /\ v.norm[c].to_node = v.units[a]
    /\ \A k \in {a, b, c} :
          v.ms[k] = 1 /\ MoversTo(v, v.norm[k].to_node) = {k}

ProposedAt(i, j) ==
    {n \in DOMAIN calls : calls[n].method = "propose_deal"
                          /\ calls[n].power = i /\ calls[n].other = j}
AcceptAskedAt(i, j) ==
    {n \in DOMAIN calls : calls[n].method = "accept_deal"
                          /\ calls[n].power = j /\ calls[n].other = i}

\* The powers of the turn that have a participant.
Taking == Range(ordered_powers(Self, powers)) \cap Range(participants)

\* C31: in one run_turn, for every ordered pair (i, j) of distinct powers of the
\* turn that both have a participant, i's propose_deal towards j is called
\* exactly once and j's accept_deal at most once, only after i proposed a deal
\* and only for that deal; no power proposes to itself, and a power without a
\* participant neither proposes nor responds.
C31_OneProposalPerPair ==
    (pc = "ran") =>
        /\ \A i, j \in Taking :
              i # j =>
                  /\ Cardinality(ProposedAt(i, j)) = 1
                  /\ Cardinality(AcceptAskedAt(i, j)) <= 1
                  /\ \A n \in AcceptAskedAt(i, j) :
                        /\ \E m \in ProposedAt(i, j) : m < n
                        /\ calls[n].deal # NoDeal
                        /\ calls[n].deal = replies[<<i, j>>].deal
        /\ \A n \in DOMAIN calls :
              /\ calls[n].power # calls[n].other
              /\ {calls[n].power, calls[n].other} \subseteq Taking

\* C31 witness: the turn was given a power without a participant beside two
\* that have one; one of the two proposed a deal and the other was asked, and
\* the other proposed none.
C31_Witness ==
    /\ pc = "ran"
    /\ Range(ordered_powers(Self, powers)) \ Range(participants) # {}
    /\ \E i, j \in Taking :
          /\ i # j
          /\ AcceptAskedAt(i, j) # {}
          /\ ProposedAt(j, i) # {}
          /\ AcceptAskedAt(j, i) = {}

\* ------------------------------------------------------ the frame of a call
\* The (power, unit_id) pairs of a GameState value.
KeysOf(value) ==
    UNION {{<<p, u>> : u \in DOMAIN value.units[p]} : p \in DOMAIN value.units}

\* C38: adjudicate_orders changes nothing but unit positions and removals: the
\* (power, unit_id) pairs of the returned state are among the input's, whatever
\* keys the orders mapping holds, their number does not grow, and the returned
\* state's turn and center_owner equal the input's.
C38_OnlyPositionsAndRemovals ==
    Returned =>
        LET in == ValueOf(objs, tops, inners, centers, state)
            out == ValueOf(objs, tops, inners, centers, next_state)
        IN /\ KeysOf(out) \subseteq KeysOf(in)
           /\ Cardinality(KeysOf(out)) <= Cardinality(KeysOf(in))
           /\ out.turn = in.turn
           /\ out.center_owner = in.center_owner

\* C38 witness: the orders mapping held a Move for a key that is no unit of
\* the state, a unit was removed and a unit changed node.
C38_Witness ==
    /\ Returned
    /\ LET in == ValueOf(objs, tops, inners, centers, state)
           out == ValueOf(objs, tops, inners, centers, next_state)
       IN /\ \E k \in DOMAIN orders \ KeysOf(in) : orders[k].kind = "Move"
          /\ KeysOf(out) # KeysOf(in)
          /\ \E k \in KeysOf(out) : out.units[k[1]][k[2]] # in.units[k[1]][k[2]]
          /\ in.center_owner # <<>>

\* ------------------------------------------------- filter and check agree
\* The list sub is the list full with some of its orders left out.
RECURSIVE SubList(_, _)
SubList(sub, full) ==
    IF sub = <<>> THEN TRUE
    ELSE IF full = <<>> THEN FALSE
    ELSE IF Head(sub) = Head(full) THEN SubList(Tail(sub), Tail(full))
    ELSE SubList(sub, Tail(full))

\* C39: for a NoEnterDeal, a SupportDeal and a PeaceDeal built by from_state
\* from the same state, a power that submits for each of its units an order of
\* allowed_orders(power, legal orders), no allowed list being empty, has no
\* violation; allowed_orders adds no order and no unit, and applying it to its
\* own result gives that result.
C39_FilterAndCheckAgree ==
    /\ pc = "complied" => found = <<>>
    /\ pc \in {"allowed", "complied"} =>
          /\ DOMAIN allowed \subseteq DOMAIN orders_by_unit
          /\ \A u \in DOMAIN allowed : SubList(allowed[u], orders_by_unit[u])
          /\ allowed_orders(deal, power, allowed) = allowed

\* C39 witness: the power is bound by the deal, allowed_orders took orders
\* away, and every one of its two units submitted an order that is no Hold.
C39_Witness ==
    /\ pc = "complied"
    /\ allowed # orders_by_unit
    /\ Cardinality(DOMAIN submitted) = 2
    /\ \A u \in DOMAIN submitted : submitted[u].order.kind # "Hold"

\* ------------------------------------------------------------------ Game
\* The turn of self.state.
Turn == objs[state].turn

\* C33: Game.run always returns.  Every iteration of its loop that does not
\* return calls step, and the state that step produces has the turn of the
\* state before it plus exactly 1; so run adjudicates at most
\* max(0, max_turns - t0) rounds from the initial turn t0, and the turn of the
\* result it returns is at most max(t0, max_turns).
C33_RunReturns ==
    /\ <>(pc = "done")
    /\ [](pc = "played" => Turn = before.state.turn + 1)
    /\ [](rounds <= MaxOf({0, max_turns - initial_turn}))
    /\ [](pc = "done" => /\ result.turn = Turn
                         /\ result.turn <= MaxOf({initial_turn, max_turns}))

\* run returned after it had played every round up to the turn limit, two of
\* them or more.
C33_Witness ==
    /\ pc = "done"
    /\ rounds >= 2
    /\ rounds = max_turns - initial_turn
    /\ result.reason = "max_turns"

\* The centers that power p owns in a center_owner dict, and the powers that
\* own at least target of them.
Owned(center_owner, p) == {c \in DOMAIN center_owner : center_owner[c] = p}
Reached(center_owner, target) ==
    {p \in Powers : Cardinality(Owned(center_owner, p)) >= target}
\* The powers that own a center and no fewer centers than any other power.
Leaders(center_owner) ==
    {p \in Powers : /\ Owned(center_owner, p) # {}
                    /\ \A q \in Powers : Cardinality(Owned(center_owner, q))
                                           <= Cardinality(Owned(center_owner, p))}

\* C34: the result of Game.run follows the centers rule.  The reason
\* target_centers with winner p is returned only when p is the one power that
\* owns at least target_centers centers, and then it is returned whatever the
\* turn is; when two powers or more own that many, or none does, run plays on
\* until the turn limit, where the one power with the most centers wins and
\* the game is a draw when there is no such power; draw is true exactly when
\* winner is None.
C34_CentersRule ==
    /\ pc = "done" =>
          /\ result.draw <=> (result.winner = None)
          /\ result.reason \in {"target_centers", "max_turns"}
          /\ (result.reason = "target_centers")
                <=> (Cardinality(Reached(CenterOwner, target_centers)) = 1)
          /\ result.reason = "target_centers" =>
                Reached(CenterOwner, target_centers) = {result.winner}
          /\ result.reason = "max_turns" =>
                /\ Turn >= max_turns
                /\ IF Cardinality(Leaders(CenterOwner)) = 1
                   THEN Leaders(CenterOwner) = {result.winner}
                   ELSE result.winner = None
          /\ \A q \in Powers : /\ q \in DOMAIN result.centers <=> Owned(CenterOwner, q) # {}
                               /\ q \in DOMAIN result.centers =>
                                     result.centers[q] = Cardinality(Owned(CenterOwner, q))
    /\ pc = "played" =>
          /\ Cardinality(Reached(before.state.center_owner, target_centers)) # 1
          /\ before.state.turn < max_turns

\* A round was played from a state in which two powers owned at least
\* target_centers centers.
C34_Witness ==
    /\ pc = "played"
    /\ Cardinality(Reached(before.state.center_owner, target_centers)) >= 2

\* The units standing on a node.
UnitsAt(units, node) == {k \in DOMAIN units : units[k] = node}

\* C35: after every Game.step, every supply center of the map on which a unit
\* stands is owned by that unit's power, and every supply center on which no
\* unit stands has the owner it had before the step; so a center that has an
\* owner does not become unowned.
C35_CentersFollowUnits ==
    pc = "played" =>
        /\ \A c \in Range(map_def.supply_centers) :
              IF UnitsAt(Units, c) # {}
              THEN /\ c \in DOMAIN CenterOwner
                   /\ \A k \in UnitsAt(Units, c) : CenterOwner[c] = k[1]
              ELSE /\ c \in DOMAIN CenterOwner <=> c \in DOMAIN before.state.center_owner
                   /\ c \in DOMAIN CenterOwner => CenterOwner[c] = before.state.center_owner[c]
        /\ \A c \in DOMAIN before.state.center_owner :
              before.state.center_owner[c] # None =>
                  c \in DOMAIN CenterOwner /\ CenterOwner[c] # None

\* A step in which a unit took a center that another power owned, while a
\* center that its owner's unit had left stayed with that owner.
C35_Witness ==
    /\ pc = "played"
    /\ \E c \in Range(map_def.supply_centers) :
          /\ UnitsAt(Units, c) # {}
          /\ before.state.center_owner[c] \notin {None, CenterOwner[c]}
    /\ \E c \in Range(map_def.supply_centers) :
          /\ UnitsAt(Units, c) = {}
          /\ CenterOwner[c] # None

\* The powers of state.units, and the powers that have a unit in a units value.
PowersIn == DOMAIN tops[objs[state].units]
WithUnits(byPower) == {p \in DOMAIN byPower : DOMAIN byPower[p] # {}}

\* C36: after every Game.step no power of state.units has an empty unit
\* mapping: a power that lost its last unit in the round is deleted from
\* state.units and added to eliminated.  The eliminated set never shrinks, and
\* an eliminated power has no unit and is given no order.
C36_EliminatedStayOut ==
    /\ \A p \in eliminated : p \notin PowersIn /\ \A k \in DOMAIN Units : k[1] # p
    /\ pc = "played" =>
          /\ \A p \in PowersIn : \E k \in DOMAIN Units : k[1] = p
          /\ \A p \in DOMAIN before.state.units :
                (\A k \in DOMAIN Units : k[1] # p) => p \notin PowersIn /\ p \in eliminated
          /\ before.eliminated \subseteq eliminated
          /\ eliminated \ before.eliminated \subseteq DOMAIN before.state.units
          /\ \A k \in DOMAIN orders : k[1] \notin before.eliminated
          /\ {k[1] : k \in DOMAIN orders} = WithUnits(before.state.units)

\* A round in which the last unit of a power was dislodged: the power had a
\* unit before the round and is eliminated after it.
C36_Witness ==
    /\ pc = "played"
    /\ \E p \in eliminated \ before.eliminated : DOMAIN before.state.units[p] # {}

\* C37: in a Game that starts with its units on pairwise distinct nodes of a
\* valid map, after any number of rounds in which every unit is given one of
\* its legal orders and adjudicate_orders resolves them, every unit stands on
\* a node of the map and no two units stand on the same node.
C37_UnitsStayOnMap ==
    /\ \A k \in DOMAIN Units : Units[k] \in Range(map_def.nodes)
    /\ \A a, b \in DOMAIN Units : a # b => Units[a] # Units[b]

\* The second round or a later one, with units of two powers on the board, in
\* which a unit moved to another node.
C37_Witness ==
    /\ pc = "played"
    /\ rounds >= 2
    /\ Cardinality(PowersIn) >= 2
    /\ \E k \in DOMAIN Units : Units[k] # before.state.units[k[1]][k[2]]

\* ------------------------------------------------------------ ownership
\* The units of a state by their unit id alone, and the state that the second
\* call returned.
ById(units) == [u \in {k[2] : k \in DOMAIN units} |-> units[CHOOSE k \in DOMAIN units : k[2] = u]]
AgainUnits == UnitsOf(objs, tops, inners, again)

\* C40: adjudication is blind to ownership.  With the two powers exchanged in
\* the state and the orders, the returned state is the first call's with the
\* powers exchanged; with every unit given to one power, each unit id ends on
\* the node it ended on in the first call and the units dislodged are the same,
\* so a holder is dislodged by a stronger move of its own power as by another's.
C40_BlindToOwnership ==
    /\ pc = "renamed" =>
          /\ DOMAIN AgainUnits = {<<Exchanged[k[1]], k[2]>> : k \in DOMAIN View.out}
          /\ \A k \in DOMAIN View.out : AgainUnits[<<Exchanged[k[1]], k[2]>>] = View.out[k]
          /\ centers[objs[again].center_owner]
               = [c \in DOMAIN centers[objs[next_state].center_owner] |->
                     Exchanged[centers[objs[next_state].center_owner][c]]]
          /\ objs[again].turn = objs[next_state].turn
    /\ pc = "own power" =>
          /\ ById(AgainUnits) = ById(View.out)
          /\ Cardinality({k[1] : k \in DOMAIN again_orders}) <= 1
          /\ centers[objs[again].center_owner] = centers[objs[next_state].center_owner]

\* Every unit was given to one power, and a unit that held was dislodged by
\* the move of a unit that had been another power's in the first call.
C40_Witness ==
    /\ pc = "own power"
    /\ \E d \in DOMAIN View.units \ DOMAIN View.out :
          /\ View.norm[d].kind = "Hold"
          /\ d[2] \notin {k[2] : k \in DOMAIN AgainUnits}
          /\ \E k \in DOMAIN View.out :
                /\ k[1] # d[1]
                /\ View.norm[k].kind = "Move"
                /\ View.out[k] = View.units[d]

\* --------------------------------------------------------------- agents
\* C32: BaselineNegotiatorAgent.select_orders respects the active deals: for
\* every list of active deals and every state, no active deal reports a
\* violation by the orders it returns for its power.
C32_SelectedOrdersKeepDeals ==
    pc = "checked" => \A j \in DOMAIN found : found[j] = <<>>

====
